---------------------------- MODULE Spec2Model ----------------------------
(***************************************************************************)
(* Pan360: a state-machine model of the four stitching strategies          *)
(* (src/src/stitching/*.py).  One stitch call is followed from its         *)
(* arguments to its return value (or to the exception that leaves it).     *)
(* Further developments follow the job server (src/server), the upload     *)
(* client, the stepper motor and the scanner (src/src), each under a       *)
(* specification of its own.                                               *)
(*                                                                         *)
(* Images are one pixel row high; the height of every file is the same,    *)
(* so only widths can disagree.  A path is the sequence of the character   *)
(* codes of its file name, so that sorted() and re.search() act on it as   *)
(* they do in Python.  The float32 buffers of the angle-based strategies   *)
(* and the float64 blend of the manual pipeline are computed digit by      *)
(* digit, with the rounding of each operation.                             *)
(***************************************************************************)
EXTENDS Integers, Sequences, FiniteSets, TLC

\* The longest list of paths handed to one stitch call.
MaxFrames == 3

(***************************************************************************)
(* Small arithmetic helpers (Python's int(), min, max, abs, %).            *)
(***************************************************************************)
Min(a, b) == IF a <= b THEN a ELSE b
Max(a, b) == IF a >= b THEN a ELSE b
Abs(a) == IF a < 0 THEN -a ELSE a

\* int(a / b) for b > 0: truncation towards zero.
TruncDiv(a, b) == IF a >= 0 THEN a \div b ELSE -((-a) \div b)

(***************************************************************************)
(* File names as character codes.                                          *)
(***************************************************************************)
\* The code point of the digit zero of every script that has decimal digits
\* (Unicode 14.0, category Nd): the ten digits of a script follow each other
\* from its zero on.  \d of a str pattern matches them all, and float()
\* reads each as its decimal value.
DigitZeros ==
    {48, 1632, 1776, 1984, 2406, 2534, 2662, 2790, 2918, 3046, 3174, 3302,
     3430, 3558, 3664, 3792, 3872, 4160, 4240, 6112, 6160, 6470, 6608,
     6784, 6800, 6992, 7088, 7232, 7248, 42528, 43216, 43264, 43472, 43504,
     43600, 44016, 65296, 66720, 68912, 69734, 69872, 69942, 70096, 70384,
     70736, 70864, 71248, 71360, 71472, 71904, 72016, 72784, 73040, 73120,
     92768, 92864, 93008, 120782, 120792, 120802, 120812, 120822, 123200,
     123632, 125264, 130032}

\* \d
IsDigit(c) ==
    \/ c >= 48 /\ c <= 57
    \/ c >= 1632 /\ \E z \in DigitZeros : c >= z /\ c <= z + 9

\* The decimal value of a digit.
DigitValue(c) == c - (CHOOSE z \in DigitZeros : c >= z /\ c <= z + 9)

\* "angle"
AnglePrefix == <<97, 110, 103, 108, 101>>
\* ".jpg"
JpgSuffix == <<46, 106, 112, 103>>

\* "angle_<digits>.jpg"
AngleName(digits) == AnglePrefix \o <<95>> \o digits \o JpgSuffix

P_angle_000 == AngleName(<<48, 48, 48>>)
P_angle_001 == AngleName(<<48, 48, 49>>)
P_angle_003 == AngleName(<<48, 48, 51>>)
P_angle_004 == AngleName(<<48, 48, 52>>)
P_angle_10 == AngleName(<<49, 48>>)
P_angle_9 == AngleName(<<57>>)
P_angle_330 == AngleName(<<51, 51, 48>>)
\* "img_5.jpg"
P_img_5 == <<105, 109, 103, 95, 53>> \o JpgSuffix

\* Eight captures 45 degrees apart, 640 pixels wide: "angle_0000.jpg" to
\* "angle_0315.jpg".
P_angle_0000 == AngleName(<<48, 48, 48, 48>>)
P_angle_0045 == AngleName(<<48, 48, 52, 53>>)
P_angle_0090 == AngleName(<<48, 48, 57, 48>>)
P_angle_0135 == AngleName(<<48, 49, 51, 53>>)
P_angle_0180 == AngleName(<<48, 49, 56, 48>>)
P_angle_0225 == AngleName(<<48, 50, 50, 53>>)
P_angle_0270 == AngleName(<<48, 50, 55, 48>>)
P_angle_0315 == AngleName(<<48, 51, 49, 53>>)

\* The eight captures in the order they were taken.
WidePaths ==
    <<P_angle_0000, P_angle_0045, P_angle_0090, P_angle_0135,
      P_angle_0180, P_angle_0225, P_angle_0270, P_angle_0315>>

\* The files on disk that a call may be given.
Paths ==
    {P_angle_000, P_angle_001, P_angle_003, P_angle_004,
     P_angle_10, P_angle_9, P_angle_330, P_img_5}

\* cv2.imread(path) is None: angle_003.jpg is not a decodable image.
Decodes(path) == path # P_angle_003

\* img.shape[1] of the decoded file: angle_004.jpg is narrower than the rest.
\* The eight captures of WidePaths are 640 pixels wide.
FileWidth(path) ==
    IF path = P_angle_004 THEN 2
    ELSE IF \E i \in DOMAIN WidePaths : WidePaths[i] = path THEN 640
    ELSE 4

\* A number that names the file in pixel values (its rank among Paths).
FileTag(path) ==
    CASE path = P_angle_000 -> 1
      [] path = P_angle_001 -> 2
      [] path = P_angle_003 -> 3
      [] path = P_angle_004 -> 4
      [] path = P_angle_10 -> 5
      [] path = P_angle_9 -> 6
      [] path = P_angle_330 -> 7
      [] \E i \in DOMAIN WidePaths : WidePaths[i] = path ->
            8 + CHOOSE i \in DOMAIN WidePaths : WidePaths[i] = path
      [] OTHER -> 8

\* The projected (warped) frame's pixel in column x: the result of cv2.remap,
\* an 8-bit value that tells the file and the column apart.
WarpedPixel(path, x) == ((20 * FileTag(path) + x) % 255) + 1

(***************************************************************************)
(* sorted(image_paths): Python compares str by code point,                 *)
(* lexicographically, a proper prefix first.                               *)
(***************************************************************************)
RECURSIVE StrLess(_, _)
StrLess(s, t) ==
    IF t = <<>> THEN FALSE
    ELSE IF s = <<>> THEN TRUE
    ELSE IF Head(s) # Head(t) THEN Head(s) < Head(t)
    ELSE StrLess(Tail(s), Tail(t))

\* The elements of a sequence, as a set.
Range(s) == {s[i] : i \in DOMAIN s}

\* sorted(...) of the distinct strings of a set (the paths a glob yields).
RECURSIVE SortedPaths(_)
SortedPaths(S) ==
    IF S = {} THEN <<>>
    ELSE LET m == CHOOSE p \in S : \A q \in S \ {p} : StrLess(p, q)
         IN  <<m>> \o SortedPaths(S \ {m})

\* sorted(list) of a list of strings: every element stays, a string given
\* twice is there twice.
RECURSIVE InsertPath(_, _)
InsertPath(sorted, p) ==
    IF sorted = <<>> THEN <<p>>
    ELSE IF ~StrLess(p, sorted[Len(sorted)]) THEN Append(sorted, p)
    ELSE Append(InsertPath(SubSeq(sorted, 1, Len(sorted) - 1), p),
                sorted[Len(sorted)])

RECURSIVE Sorted(_)
Sorted(s) ==
    IF s = <<>> THEN <<>>
    ELSE InsertPath(Sorted(SubSeq(s, 1, Len(s) - 1)), s[Len(s)])

(***************************************************************************)
(* numpy float32 arithmetic: IEEE 754 binary32, round to nearest, ties to  *)
(* even.  A value is the record [m |-> m, e |-> e] for m * 2^e, with m = 0 *)
(* and e = 0 for zero and 2^23 <= |m| < 2^24 otherwise.  The canvas and    *)
(* the weights of the angle-based strategies are float32 arrays.           *)
(***************************************************************************)
\* The number of binary digits of n >= 0.
RECURSIVE BitLength(_)
BitLength(n) == IF n = 0 THEN 0 ELSE 1 + BitLength(n \div 2)

F32Zero == [m |-> 0, e |-> 0]

\* The float32 nearest to (n + f) * 2^e for an integer 0 <= n < 2^31 and a
\* fraction 0 <= f < 1 that is positive exactly when sticky holds (n has 26
\* digits or more then), negated when neg holds.
F32Round(neg, n, e, sticky) ==
    LET bits == BitLength(n)
        sign == IF neg THEN -1 ELSE 1
    IN  IF n = 0 THEN F32Zero
        ELSE IF bits <= 24
           THEN [m |-> sign * n * 2^(24 - bits), e |-> e - (24 - bits)]
           ELSE LET d == bits - 24
                    high == n \div 2^d
                    low == n % 2^d
                    half == 2^(d - 1)
                    up == low > half \/ (low = half /\ (sticky \/ high % 2 = 1))
                    r == IF up THEN high + 1 ELSE high
                IN  IF r = 2^24 THEN [m |-> sign * 2^23, e |-> e + d + 1]
                    ELSE [m |-> sign * r, e |-> e + d]

\* np.float32(n) for an integer n.
F32(n) == F32Round(n < 0, Abs(n), 0, FALSE)

F32Neg(a) == [m |-> 0 - a.m, e |-> a.e]

\* a * b in float32.
F32Mul(a, b) ==
    LET ma == Abs(a.m)
        mb == Abs(b.m)
        a1 == ma \div 4096
        a0 == ma % 4096
        b1 == mb \div 4096
        b0 == mb % 4096
        mid == a1 * b0 + a0 * b1
        low == (mid % 4096) * 4096 + a0 * b0
        \* |a.m| * |b.m| = high * 2^24 + rest
        high == a1 * b1 + mid \div 4096 + low \div 2^24
        rest == low % 2^24
    IN  F32Round((a.m < 0) # (b.m < 0), high * 64 + rest \div 2^18,
                 a.e + b.e + 18, rest % 2^18 # 0)

\* a + b in float32.
F32Add(a, b) ==
    IF a.m = 0 THEN b
    ELSE IF b.m = 0 THEN a
    ELSE LET big == IF a.e >= b.e THEN a ELSE b
             small == IF a.e >= b.e THEN b ELSE a
             d == big.e - small.e
         IN  IF d <= 3
                THEN LET s == big.m * 8 + small.m * 2^(3 - d)
                     IN  F32Round(s < 0, Abs(s), big.e - 3, FALSE)
                ELSE LET k == d - 3
                         q == IF k >= 24 THEN 0 ELSE Abs(small.m) \div 2^k
                         r == IF k >= 24 THEN 1 ELSE Abs(small.m) % 2^k
                         same == (big.m < 0) = (small.m < 0)
                         n == IF same THEN Abs(big.m) * 8 + q
                              ELSE IF r = 0 THEN Abs(big.m) * 8 - q
                              ELSE Abs(big.m) * 8 - q - 1
                     IN  F32Round(big.m < 0, n, big.e - 3, r # 0)

\* a / b in float32, for b other than zero.
F32Div(a, b) ==
    LET ma == Abs(a.m)
        mb == Abs(b.m)
        r0 == ma % mb
        r1 == (r0 * 128) % mb
        r2 == (r1 * 128) % mb
        r3 == (r2 * 128) % mb
        r4 == (r3 * 128) % mb
        \* floor(|a.m| * 2^28 / |b.m|), seven digits at a time
        q == ((((ma \div mb) * 128 + (r0 * 128) \div mb) * 128
                + (r1 * 128) \div mb) * 128
                + (r2 * 128) \div mb) * 128
                + (r3 * 128) \div mb
    IN  F32Round((a.m < 0) # (b.m < 0), q, a.e - b.e - 28, r4 # 0)

\* a < b for float32 values.
F32Less(a, b) == F32Add(a, F32Neg(b)).m < 0

\* int(a): the float32 a truncated towards zero.
F32Trunc(a) ==
    IF a.e >= 0 THEN a.m * 2^a.e
    ELSE IF 0 - a.e >= 24 THEN 0
    ELSE IF a.m < 0 THEN 0 - (Abs(a.m) \div 2^(0 - a.e))
    ELSE a.m \div 2^(0 - a.e)

\* np.float32(n / d) for Python integers n and d, 0 < d < 2^13 and
\* |n| < 2^24: the float64 quotient stored into a float32 array.  Rounding
\* n / d to float64 first changes nothing: n / d is no midpoint of two
\* float32 values and lies further than the float64 error from each.
F32Ratio(n, d) == F32Div(F32(n), F32(d))

(***************************************************************************)
(* Python float arithmetic: IEEE 754 binary64, round to nearest, ties to   *)
(* even, for the values that are not negative.  A natural number beyond    *)
(* 2^31 is the sequence of its digits to the base 2^15, lowest first,      *)
(* without leading zeros; a float is [m |-> m, e |-> e] for m * 2^e, with  *)
(* m = << >> and e = 0 for zero and m of 53 binary digits otherwise.       *)
(***************************************************************************)
Limb == 2^15

RECURSIVE Big(_)
Big(n) == IF n = 0 THEN <<>> ELSE <<n % Limb>> \o Big(n \div Limb)

RECURSIVE BigValue(_)
BigValue(a) == IF a = <<>> THEN 0 ELSE a[1] + Limb * BigValue(Tail(a))

RECURSIVE BigTrim(_)
BigTrim(a) ==
    IF a = <<>> \/ a[Len(a)] # 0 THEN a ELSE BigTrim(SubSeq(a, 1, Len(a) - 1))

Digit(a, i) == IF i \in DOMAIN a THEN a[i] ELSE 0

\* a * n + carry from digit i on, for 0 <= n < 2^15.
RECURSIVE BigTimesFrom(_, _, _, _)
BigTimesFrom(a, n, i, carry) ==
    IF i > Len(a) THEN Big(carry)
    ELSE LET t == a[i] * n + carry
         IN  <<t % Limb>> \o BigTimesFrom(a, n, i + 1, t \div Limb)

BigTimes(a, n) == BigTrim(BigTimesFrom(a, n, 1, 0))

RECURSIVE BigPlusFrom(_, _, _, _)
BigPlusFrom(a, b, i, carry) ==
    IF i > Len(a) /\ i > Len(b) THEN Big(carry)
    ELSE LET t == Digit(a, i) + Digit(b, i) + carry
         IN  <<t % Limb>> \o BigPlusFrom(a, b, i + 1, t \div Limb)

BigPlus(a, b) == BigPlusFrom(a, b, 1, 0)

\* a - b from digit i on, for a >= b.
RECURSIVE BigMinusFrom(_, _, _, _)
BigMinusFrom(a, b, i, borrow) ==
    IF i > Len(a) THEN <<>>
    ELSE LET t == a[i] - Digit(b, i) - borrow
         IN  <<t % Limb>> \o BigMinusFrom(a, b, i + 1, IF t < 0 THEN 1 ELSE 0)

BigMinus(a, b) == BigTrim(BigMinusFrom(a, b, 1, 0))

RECURSIVE BigLessFrom(_, _, _)
BigLessFrom(a, b, i) ==
    IF i = 0 THEN FALSE
    ELSE IF a[i] # b[i] THEN a[i] < b[i]
    ELSE BigLessFrom(a, b, i - 1)

BigLess(a, b) ==
    IF Len(a) # Len(b) THEN Len(a) < Len(b) ELSE BigLessFrom(a, b, Len(a))

BigBits(a) == IF a = <<>> THEN 0 ELSE 15 * (Len(a) - 1) + BitLength(a[Len(a)])

\* a * 2^k and a \div 2^k.
BigShiftLeft(a, k) ==
    IF a = <<>> THEN a
    ELSE [i \in 1..(k \div 15) |-> 0] \o BigTimes(a, 2^(k % 15))

BigShiftRight(a, k) ==
    LET b == SubSeq(a, k \div 15 + 1, Len(a))
        s == k % 15
    IN  BigTrim([i \in 1..Len(b) |->
                    b[i] \div 2^s + (Digit(b, i + 1) % 2^s) * 2^(15 - s)])

F64Zero == [m |-> <<>>, e |-> 0]

\* The float nearest to (n + f) * 2^e for a natural number n and a fraction
\* 0 <= f < 1 that is positive exactly when sticky holds (n has 55 digits
\* or more then).
F64Round(n, e, sticky) ==
    LET bits == BigBits(n)
    IN  IF n = <<>> THEN F64Zero
        ELSE IF bits <= 53
           THEN [m |-> BigShiftLeft(n, 53 - bits), e |-> e - (53 - bits)]
           ELSE LET d == bits - 53
                    high == BigShiftRight(n, d)
                    low == BigMinus(n, BigShiftLeft(high, d))
                    half == BigShiftLeft(<<1>>, d - 1)
                    up == BigLess(half, low)
                          \/ (low = half /\ (sticky \/ high[1] % 2 = 1))
                    r == IF up THEN BigPlus(high, <<1>>) ELSE high
                IN  IF BigBits(r) = 54
                       THEN [m |-> BigShiftRight(r, 1), e |-> e + d + 1]
                       ELSE [m |-> r, e |-> e + d]

\* float(n) for an integer 0 <= n < 2^31.
F64(n) == F64Round(Big(n), 0, FALSE)

\* n / d for Python integers n >= 0 and 0 < d <= 2^16.
F64Ratio(n, d) ==
    LET r0 == n % d
        r1 == (r0 * Limb) % d
        r2 == (r1 * Limb) % d
        r3 == (r2 * Limb) % d
        r4 == (r3 * Limb) % d
        r5 == (r4 * Limb) % d
        \* floor(n * 2^75 / d), fifteen digits at a time
        q == <<(r4 * Limb) \div d, (r3 * Limb) \div d, (r2 * Limb) \div d,
               (r1 * Limb) \div d, (r0 * Limb) \div d>> \o Big(n \div d)
    IN  F64Round(BigTrim(q), -75, r5 # 0)

\* a * n for a float a and an integer 0 <= n < 2^15 (a uint8 value).
F64Times(a, n) == F64Round(BigTimes(a.m, n), a.e, FALSE)

\* a + b and, for a >= b, a - b.
F64Plus(a, b) ==
    IF a.m = <<>> THEN b
    ELSE IF b.m = <<>> THEN a
    ELSE LET e == Min(a.e, b.e)
         IN  F64Round(BigPlus(BigShiftLeft(a.m, a.e - e),
                              BigShiftLeft(b.m, b.e - e)), e, FALSE)

F64Minus(a, b) ==
    IF b.m = <<>> THEN a
    ELSE LET e == Min(a.e, b.e)
         IN  F64Round(BigMinus(BigShiftLeft(a.m, a.e - e),
                               BigShiftLeft(b.m, b.e - e)), e, FALSE)

\* int(a), for a below 2^31.
F64Trunc(a) ==
    IF a.e >= 0 THEN BigValue(BigShiftLeft(a.m, a.e))
    ELSE BigValue(BigShiftRight(a.m, 0 - a.e))

\* a * b for natural numbers a and b.
RECURSIVE BigProductFrom(_, _, _)
BigProductFrom(a, b, i) ==
    IF i > Len(b) THEN <<>>
    ELSE BigPlus(BigTimes(a, b[i]), <<0>> \o BigProductFrom(a, b, i + 1))

BigProduct(a, b) == BigTrim(BigProductFrom(a, b, 1))

\* Long division of n by d to the base 2^15, from digit i of n down, for a
\* divisor whose highest digit is 2^14 or more: the digit of the quotient is
\* at most 2 below its estimate from the two highest digits of the rest.
RECURSIVE BigDivideFrom(_, _, _, _, _)
BigDivideFrom(n, d, i, r, q) ==
    IF i = 0 THEN [q |-> BigTrim(q), rest |-> r # <<>>]
    ELSE LET r1 == BigTrim(<<n[i]>> \o r)
             est == Min(Limb - 1,
                        (Digit(r1, Len(d) + 1) * Limb + Digit(r1, Len(d)))
                            \div d[Len(d)])
             digit == IF ~BigLess(r1, BigTimes(d, est)) THEN est
                      ELSE IF ~BigLess(r1, BigTimes(d, est - 1)) THEN est - 1
                      ELSE est - 2
         IN  BigDivideFrom(n, d, i - 1, BigMinus(r1, BigTimes(d, digit)),
                           <<digit>> \o q)

\* a * b and a / b for floats (b # 0).
F64Mul(a, b) ==
    IF a.m = <<>> \/ b.m = <<>> THEN F64Zero
    ELSE F64Round(BigProduct(a.m, b.m), a.e + b.e, FALSE)

F64Div(a, b) ==
    IF a.m = <<>> THEN F64Zero
    ELSE LET \* floor(a.m * 2^60 / b.m), both scaled to a 60 digit divisor
             n == <<0, 0, 0, 0>> \o BigTimes(a.m, 2^7)
             d == BigDivideFrom(n, BigTimes(b.m, 2^7), Len(n), <<>>, <<>>)
         IN  F64Round(d.q, a.e - b.e - 60, d.rest)

\* int(a) of the float a, negated when neg holds.
F64Int(neg, a) == IF neg THEN 0 - F64Trunc(a) ELSE F64Trunc(a)

\* round(a): the nearest integer, the even one of two equally near.
F64Nearest(a) ==
    LET t == F64Trunc(a)
        twice == F64Mul(a, F64(2))
    IN  IF F64Trunc(twice) = 2 * t THEN t
        ELSE IF twice = F64(2 * t + 1) /\ t % 2 = 0 THEN t
        ELSE t + 1

(***************************************************************************)
(* re.search(r'angle[_-](\d+)', name) and re.search(r'angle_(\d+)', name). *)
(***************************************************************************)
\* The pattern matches at position i of s with a separator from seps.
MatchesAt(s, i, seps) ==
    /\ i + 6 <= Len(s)
    /\ SubSeq(s, i, i + 4) = AnglePrefix
    /\ s[i + 5] \in seps
    /\ IsDigit(s[i + 6])

\* The greedy \d+ group that starts at position j: the digits up to the
\* first character that is none.
DigitRun(s, j) ==
    LET others == {k \in j..Len(s) : ~IsDigit(s[k])}
        end == IF others = {} THEN Len(s) + 1
               ELSE CHOOSE k \in others : \A m \in others : k <= m
    IN  SubSeq(s, j, end - 1)

\* 10^k as a natural number.
RECURSIVE BigPowerOfTen(_)
BigPowerOfTen(k) ==
    IF k = 0 THEN <<1>>
    ELSE LET h == BigPowerOfTen(k \div 2)
             sq == BigProduct(h, h)
         IN  IF k % 2 = 0 THEN sq ELSE BigTimes(sq, 10)

\* The natural number a digit string writes: that of its first half times
\* the power of ten of the second half's length, plus that of the second.
RECURSIVE DigitsNumber(_)
DigitsNumber(d) ==
    IF d = <<>> THEN <<>>
    ELSE IF Len(d) = 1 THEN Big(DigitValue(d[1]))
    ELSE LET k == Len(d) \div 2
             high == DigitsNumber(SubSeq(d, 1, Len(d) - k))
             low == DigitsNumber(SubSeq(d, Len(d) - k + 1, Len(d)))
         IN  BigTrim(BigPlus(BigProduct(high, BigPowerOfTen(k)), low))

\* float('inf'), kept apart from every number a digit string writes and
\* from NoAngle.
Infinity == -2

\* The number a string of at most 15 digits writes, which is below 2^53.
RECURSIVE ShortDigitsValue(_)
ShortDigitsValue(d) ==
    IF d = <<>> THEN 0
    ELSE 10 * ShortDigitsValue(SubSeq(d, 1, Len(d) - 1)) + DigitValue(d[Len(d)])

\* float(match.group(1)) of a digit string: the float nearest to the number
\* it writes, the even one of two equally near, which is the number itself
\* below 2^53, and inf from 2^1024 - 2^970 on.
DigitsValue(d) ==
    LET zeros == {i \in DOMAIN d : \A j \in 1..i : DigitValue(d[j]) = 0}
        significant == SubSeq(d, Cardinality(zeros) + 1, Len(d))
    IN  IF Len(significant) <= 15 THEN ShortDigitsValue(significant)
        ELSE IF Len(significant) > 309 THEN Infinity
        ELSE LET f == F64Round(DigitsNumber(significant), 0, FALSE)
             IN  IF BigBits(f.m) + f.e > 1024 THEN Infinity ELSE F64Trunc(f)

\* The absent bearing (None).
NoAngle == -1

\* The leftmost match's group as a number, NoAngle when nothing matches.
SearchAngle(s, seps) ==
    LET hits == {i \in 1..Len(s) : MatchesAt(s, i, seps)}
    IN  IF hits = {} THEN NoAngle
        ELSE LET i == CHOOSE k \in hits : \A m \in hits : k <= m
             IN  DigitsValue(DigitRun(s, i + 6))

\* SensorAidedStitcher._extract_angle: None when the name holds no angle.
SensorExtractAngle(name) == SearchAngle(name, {95, 45})

\* SimpleAngleStitcher._extract_angle: 0.0 when the name holds no angle.
SimpleExtractAngle(path) ==
    LET a == SearchAngle(path, {95})
    IN  IF a = NoAngle THEN 0 ELSE a


(***************************************************************************)
(* The state of one stitch call.                                           *)
(***************************************************************************)
VARIABLES
    strategy,      \* which strategy's stitch is running
    image_paths,   \* the argument: a list of paths
    config,        \* the constructor's arguments
    pc,            \* where the call is
    images,        \* the frames kept by the loading loop: [path, angle]
    read_count,    \* how many paths the loading loop has read
    warped_count,  \* how many frames have been projected
    canvas_width,  \* the allocated canvas' width (-1 before allocation)
    canvas,        \* the accumulation buffer, by column (float32 values in
                   \* the angle-based strategies, uint8 in the manual one)
    weight_map,    \* the weight buffer, by column
    offsets,       \* one record per turn of the placement loop
    closure,       \* what the loop-closure block computed
    ret,           \* the returned pair (panorama, stats)
    exception,     \* the exception that left stitch ("" when none)
    self,          \* the instance's attributes stats and processing_time
    call,          \* the number of the stitch call on this instance
    mask,          \* the feather mask being built for one frame
    tuning,        \* one call of _find_constrained_offset: arguments and result
    server,        \* the server's files and background task for the job
    client,        \* one call of UploadClient.upload_and_stitch
    motor,         \* the stepper motor: tracked step and angle, and the shaft
    scan           \* one call of Pan360Scanner.scan

vars ==
    <<strategy, image_paths, config, pc, images, read_count, warped_count, canvas_width,
      canvas, weight_map, offsets, closure, ret, exception, self, call,
      mask, tuning, server, client, motor, scan>>

\* What belongs to the other developments: the offset refinement, the job
\* server's files and task, the upload client, the motor and the scanner.
elsewhere == <<tuning, server, client, motor, scan>>

\* What a stitch call never assigns: the call's number and the mask of the
\* feather-mask development.
outside == <<call, mask, elsewhere>>

\* The default horizontal field of view of SimpleAngleStitcher, in degrees.
hfov == 54
\* The default horizontal field of view of SensorAidedStitcher, in degrees.
hfov_deg == 54

Strategies == {"simple_angle", "sensor_aided", "opencv_auto", "manual"}

\* The blend widths a stitcher is constructed with here.
BlendWidths == {0, 2}

\* The lists a call may be given: every list of at most MaxFrames distinct
\* paths, and every list of angle_000.jpg and angle_001.jpg that names a
\* file more than once.
RepeatedPathLists ==
    {s \in UNION {[1..n -> {P_angle_000, P_angle_001}] : n \in 2..MaxFrames} :
        \E i, j \in DOMAIN s : i # j /\ s[i] = s[j]}

PathLists ==
    {s \in UNION {[1..n -> Paths] : n \in 0..MaxFrames} :
        \A i, j \in DOMAIN s : i # j => s[i] # s[j]}
    \cup RepeatedPathLists

\* The constructor arguments each strategy reads.
Configs(s) ==
    CASE s = "simple_angle" ->
            {[blend_width |-> b] : b \in BlendWidths}
      [] s = "sensor_aided" ->
            [blend_width : BlendWidths, use_fine_tuning : BOOLEAN,
             debug_mode : BOOLEAN, enable_loop_closure : BOOLEAN]
      [] s = "opencv_auto" ->
            {[mode |-> m] : m \in {"panorama", "scans"}}
      [] OTHER ->
            {[feature_detector |-> "orb", matcher_type |-> "bf",
              projection |-> p] : p \in {"cylindrical", "spherical"}}

EmptyStats == [k \in {} |-> 0]
NoReturn == [none |-> TRUE, panorama |-> <<>>, x0 |-> 0, stats |-> EmptyStats]
NoClosure == [checked |-> FALSE, error |-> 0, over |-> FALSE]

\* BaseStitcher.__init__: self.processing_time = 0.0, self.stats = {}.  A
\* processing time is kept as the number of the call that measured it, 0 for
\* the constructor's 0.0.
NewInstance == [stats |-> EmptyStats, processing_time |-> 0]

\* No feather mask is being built.
NoMask == [w |-> 0, values |-> <<>>, x |-> 0, loop |-> "", left |-> {},
           right |-> {}, error |-> ""]

\* No offset is being refined.
NoTuning == [w |-> 0, expected_offset |-> 0, matches |-> <<>>, refined |-> 0,
             loop |-> ""]

\* The job server as it starts: jobs = {}, no upload directory, no result
\* file, no background task and no delete_job request.
NoTask == [state |-> "none", pc |-> 0, algorithm |-> "", blend_width |-> 0,
           scanning |-> FALSE, image_files |-> {}, panorama |-> FALSE,
           error |-> ""]
NoServer == [jobs |-> <<>>, uploads |-> <<>>, results |-> {}, task |-> NoTask,
             delete |-> "none"]

\* str(uuid.uuid4()) of the one job followed here.
JobId == "job-1"

\* Whether cv2.imread finds the file: a file handed to a stitch call of the
\* job server's task is in the job's upload directory, whose files
\* delete_job removes one after the other; a file handed to a direct call is
\* on disk.
OnDisk(path) ==
    \/ server.task.state = "none"
    \/ JobId \in DOMAIN server.uploads /\ path \in server.uploads[JobId]

\* No upload_and_stitch call.
NoClient == [pc |-> "", log |-> <<>>, observed |-> <<>>, timed_out |-> FALSE,
             returned |-> ""]

\* StepperMotor.__init__: current_step = 0, current_angle = 0.0.  Angles are
\* kept in 1/1024 degree; shaft is the net number of advances of the coil
\* sequence, clockwise minus counter-clockwise, moves counts the calls and
\* reset tells whether reset_position was one of them.
NewMotor == [current_step |-> 0, current_angle |-> 0, shaft |-> 0, moves |-> 0,
             reset |-> FALSE]

\* No scan.
NoScan == [pc |-> "", config |-> <<>>, angles |-> <<>>, captured |-> <<>>]

ElsewhereIdle ==
    /\ tuning = NoTuning
    /\ server = NoServer
    /\ client = NoClient
    /\ motor = NewMotor
    /\ scan = NoScan

Init ==
    /\ strategy \in Strategies
    /\ image_paths \in PathLists
    /\ config \in Configs(strategy)
    /\ pc = "start"
    /\ images = <<>>
    /\ read_count = 0
    /\ warped_count = 0
    /\ canvas_width = -1
    /\ canvas = <<>>
    /\ weight_map = <<>>
    /\ offsets = <<>>
    /\ closure = NoClosure
    /\ ret = NoReturn
    /\ exception = ""
    /\ self = NewInstance
    /\ call = 1
    /\ mask = NoMask
    /\ ElsewhereIdle

(***************************************************************************)
(* How a call ends.                                                        *)
(***************************************************************************)
\* return panorama, stats
Return(none, panorama, stats) ==
    /\ pc' = "returned"
    /\ ret' = [none |-> none, panorama |-> panorama, x0 |-> 0, stats |-> stats]
    /\ exception' = ""

\* The stats dict each strategy builds before its try block.
InitialStats ==
    CASE strategy = "simple_angle" ->
            [num_images |-> Len(image_paths), hfov |-> hfov,
             blend_width |-> config.blend_width, status |-> "processing"]
      [] strategy = "opencv_auto" ->
            [num_images |-> Len(image_paths), mode |-> config.mode,
             status |-> "unknown"]
      [] strategy = "manual" ->
            [num_images |-> Len(image_paths),
             feature_detector |-> config.feature_detector,
             matcher |-> config.matcher_type,
             projection |-> config.projection, status |-> "processing"]
      [] OTHER -> EmptyStats

\* d with d[k] = v (a dict assignment).
Put(d, k, v) == [x \in DOMAIN d \cup {k} |-> IF x = k THEN v ELSE d[x]]

\* self.processing_time = time.time() - start_time; self.stats = stats
Record(stats) == self' = [stats |-> stats, processing_time |-> call]

\* An exception of kind e raised inside stitch.  SensorAidedStitcher.stitch
\* has no try block: the exception leaves the call.  The except clause of
\* SimpleAngleStitcher and ManualStitcher returns None and the failed stats.
Raise(e) ==
    IF strategy = "sensor_aided"
       THEN /\ pc' = "raised"
            /\ exception' = e
            /\ ret' = ret
            /\ self' = self
       ELSE /\ Return(TRUE, <<>>, Put(Put(InitialStats, "status", "failed"), "error", e))
            /\ Record(Put(Put(InitialStats, "status", "failed"), "error", e))

(***************************************************************************)
(* The loading loop and the check for at least 2 images.                   *)
(***************************************************************************)
\* The files of s that cv2.imread decodes (the others are skipped).
RECURSIVE KeepDecodable(_)
KeepDecodable(s) ==
    IF s = <<>> THEN <<>>
    ELSE (IF Decodes(Head(s)) THEN <<Head(s)>> ELSE <<>>)
            \o KeepDecodable(Tail(s))

\* a <= b for two floats that digit strings gave.
AngleLeq(a, b) == b = Infinity \/ (a # Infinity /\ a <= b)

\* list.sort(key=angle): a stable insertion by ascending angle.
RECURSIVE InsertByAngle(_, _)
InsertByAngle(sorted, e) ==
    IF sorted = <<>> THEN <<e>>
    ELSE IF AngleLeq(sorted[Len(sorted)].angle, e.angle) THEN Append(sorted, e)
    ELSE Append(InsertByAngle(SubSeq(sorted, 1, Len(sorted) - 1), e),
                sorted[Len(sorted)])

RECURSIVE SortByAngle(_)
SortByAngle(s) ==
    IF s = <<>> THEN <<>>
    ELSE InsertByAngle(SortByAngle(SubSeq(s, 1, Len(s) - 1)), s[Len(s)])

\* The paths in the order the loop reads them: sorted(image_paths) in
\* SensorAidedStitcher, the list as given in the other strategies.
LoadOrder ==
    IF strategy = "sensor_aided" THEN Sorted(image_paths)
    ELSE image_paths

\* The angle kept with a frame (none in OpenCVAutoStitcher and
\* ManualStitcher).
FrameAngle(path) ==
    CASE strategy = "simple_angle" -> SimpleExtractAngle(path)
      [] strategy = "sensor_aided" -> SensorExtractAngle(path)
      [] OTHER -> NoAngle

\* Whether a turn of the loop keeps the file: cv2.imread finds and decodes
\* it, and in SensorAidedStitcher its name holds an angle.
Keeps(path) ==
    /\ OnDisk(path)
    /\ Decodes(path)
    /\ strategy = "sensor_aided" => SensorExtractAngle(path) # NoAngle

\* One turn of the loading loop: img = cv2.imread(path), and the frame is
\* appended or skipped.
ReadImage ==
    /\ pc = "start"
    /\ read_count < Len(image_paths)
    /\ LET path == LoadOrder[read_count + 1]
       IN  images' = IF Keeps(path)
                        THEN Append(images, [path |-> path, angle |-> FrameAngle(path)])
                        ELSE images
    /\ read_count' = read_count + 1
    /\ UNCHANGED <<strategy, image_paths, config, pc, warped_count,
                   canvas_width, canvas, weight_map, offsets, closure, ret,
                   exception, self, outside>>

\* What each strategy returns when fewer than 2 images were loaded.
TooFewStats ==
    CASE strategy = "sensor_aided" -> [error |-> "Need at least 2 images"]
      [] strategy = "opencv_auto" -> InitialStats
      [] OTHER -> Put(InitialStats, "status", "failed")

\* After the loop: fewer than 2 frames end the call; SimpleAngleStitcher
\* then sorts the frames, images_data.sort(key=angle).
Load ==
    /\ pc = "start"
    /\ read_count = Len(image_paths)
    /\ IF Len(images) < 2
          THEN /\ Return(TRUE, <<>>, TooFewStats)
               /\ self' = self
               /\ images' = images
          ELSE /\ pc' = "loaded"
               /\ images' = IF strategy = "simple_angle" THEN SortByAngle(images)
                                                         ELSE images
               /\ UNCHANGED <<ret, exception, self>>
    /\ UNCHANGED <<strategy, image_paths, config, read_count,
                   warped_count, canvas_width, canvas, weight_map, offsets,
                   closure, outside>>

(***************************************************************************)
(* The frame width and the angular increment.                              *)
(***************************************************************************)
\* h, w = images[0].shape[:2]: the first kept frame sets the width.
FrameW == FileWidth(images[1].path)

\* SensorAidedStitcher: angle_increment = angles[1] - angles[0].
angle_increment == images[2].angle - images[1].angle

(***************************************************************************)
(* Python slices and numpy broadcasting, in the column axis.               *)
(***************************************************************************)
\* A slice bound i of an axis of length n, as Python normalises it.
PyBound(i, n) == IF i < 0 THEN Max(i + n, 0) ELSE Min(i, n)

\* The length of arr[a:b] for an axis of length n.
SliceLen(a, b, n) == Max(PyBound(b, n) - PyBound(a, n), 0)

\* The broadcast of two widths, -1 when they do not broadcast.
Broadcast(a, b) ==
    IF a = b THEN a ELSE IF a = 1 THEN b ELSE IF b = 1 THEN a ELSE -1

\* Whether a value of width v can be stored (=, +=) into a slice of width l.
StoresInto(v, l) == v # -1 /\ (v = l \/ v = 1)

(***************************************************************************)
(* Geometry: pixels per degree, canvas width and positions, in the float   *)
(* arithmetic of the code.                                                 *)
(***************************************************************************)
\* SimpleAngleStitcher: pixels_per_degree = w / self.hfov.
SimplePixelsPerDegree(w) == F64Ratio(w, hfov)

\* SimpleAngleStitcher: canvas_width = int(pixels_per_degree * 360.0).
SimpleCanvasWidth(w) == F64Trunc(F64Mul(SimplePixelsPerDegree(w), F64(360)))

\* SimpleAngleStitcher: x_pos = int(angle * pixels_per_degree) % canvas_width.
SimpleXPos(angle, w) ==
    F64Trunc(F64Mul(F64(angle), SimplePixelsPerDegree(w))) % SimpleCanvasWidth(w)

\* 2 * np.tan(hfov_rad / 2) for hfov_rad = np.radians(54.0).
TwoTanHalfHfov == [m |-> <<23900, 8579, 14369, 130>>, e |-> -52]

\* w / (2 * np.tan(hfov_rad / 2)) for the widths the files here decode to
\* (FileWidth): 2 / t, 4 / t and 640 / t for t = TwoTanHalfHfov, the values
\* of F64Div(F64(w), TwoTanHalfHfov).
NarrowFocalLength == [m |-> <<25585, 3069, 7017, 251>>, e |-> -52]
FrameFocalLength == [m |-> <<25585, 3069, 7017, 251>>, e |-> -51]
CaptureFocalLength == [m |-> <<20087, 22398, 289, 157>>, e |-> -43]

\* SensorAidedStitcher: focal_length = w / (2 * np.tan(hfov_rad / 2)).
FocalLength(w) ==
    CASE w = 2 -> NarrowFocalLength
      [] w = 4 -> FrameFocalLength
      [] w = 640 -> CaptureFocalLength
      [] OTHER -> F64Div(F64(w), TwoTanHalfHfov)

\* np.tan(np.radians(d)) for d = 0.0, 1.0, ..., 359.0, each with its sign.
TanOfDegrees ==
    <<
      [neg |-> FALSE, m |-> <<>>, e |-> 0],
      [neg |-> FALSE, m |-> <<9250, 10273, 32502, 142>>, e |-> -58],
      [neg |-> FALSE, m |-> <<8130, 11180, 1162, 143>>, e |-> -57],
      [neg |-> FALSE, m |-> <<15987, 2126, 21701, 214>>, e |-> -57],
      [neg |-> FALSE, m |-> <<12804, 29906, 6884, 143>>, e |-> -56],
      [neg |-> FALSE, m |-> <<21985, 26938, 5792, 179>>, e |-> -56],
      [neg |-> FALSE, m |-> <<7576, 27206, 8305, 215>>, e |-> -56],
      [neg |-> FALSE, m |-> <<7474, 13072, 15164, 251>>, e |-> -56],
      [neg |-> FALSE, m |-> <<20453, 28876, 29943, 143>>, e |-> -55],
      [neg |-> FALSE, m |-> <<20369, 30563, 6083, 162>>, e |-> -55],
      [neg |-> FALSE, m |-> <<19388, 22411, 18311, 180>>, e |-> -55],
      [neg |-> FALSE, m |-> <<20150, 28347, 1488, 199>>, e |-> -55],
      [neg |-> FALSE, m |-> <<9036, 22764, 21558, 217>>, e |-> -55],
      [neg |-> FALSE, m |-> <<5524, 658, 13403, 236>>, e |-> -55],
      [neg |-> FALSE, m |-> <<8020, 16944, 10219, 255>>, e |-> -55],
      [neg |-> FALSE, m |-> <<19798, 15677, 6225, 137>>, e |-> -54],
      [neg |-> FALSE, m |-> <<15138, 8974, 26661, 146>>, e |-> -54],
      [neg |-> FALSE, m |-> <<27483, 22303, 17501, 156>>, e |-> -54],
      [neg |-> FALSE, m |-> <<25006, 30354, 11759, 166>>, e |-> -54],
      [neg |-> FALSE, m |-> <<5651, 24344, 9690, 176>>, e |-> -54],
      [neg |-> FALSE, m |-> <<724, 7794, 11559, 186>>, e |-> -54],
      [neg |-> FALSE, m |-> <<7430, 27211, 17641, 196>>, e |-> -54],
      [neg |-> FALSE, m |-> <<3392, 8536, 28227, 206>>, e |-> -54],
      [neg |-> FALSE, m |-> <<8863, 22220, 10849, 217>>, e |-> -54],
      [neg |-> FALSE, m |-> <<2574, 26962, 31361, 227>>, e |-> -54],
      [neg |-> FALSE, m |-> <<6833, 9939, 24560, 238>>, e |-> -54],
      [neg |-> FALSE, m |-> <<23796, 32394, 23562, 249>>, e |-> -54],
      [neg |-> FALSE, m |-> <<23900, 8579, 14369, 130>>, e |-> -53],
      [neg |-> FALSE, m |-> <<16092, 32509, 3853, 136>>, e |-> -53],
      [neg |-> FALSE, m |-> <<14783, 11255, 29593, 141>>, e |-> -53],
      [neg |-> FALSE, m |-> <<13084, 2848, 26269, 147>>, e |-> -53],
      [neg |-> FALSE, m |-> <<12189, 6411, 26880, 153>>, e |-> -53],
      [neg |-> FALSE, m |-> <<9493, 1454, 31672, 159>>, e |-> -53],
      [neg |-> FALSE, m |-> <<22031, 23971, 8137, 166>>, e |-> -53],
      [neg |-> FALSE, m |-> <<17958, 17709, 22091, 172>>, e |-> -53],
      [neg |-> FALSE, m |-> <<16250, 18241, 8294, 179>>, e |-> -53],
      [neg |-> FALSE, m |-> <<30019, 15163, 32600, 185>>, e |-> -53],
      [neg |-> FALSE, m |-> <<14096, 17469, 29813, 192>>, e |-> -53],
      [neg |-> FALSE, m |-> <<19602, 28075, 298, 200>>, e |-> -53],
      [neg |-> FALSE, m |-> <<10294, 26841, 9984, 207>>, e |-> -53],
      [neg |-> FALSE, m |-> <<16157, 28799, 26525, 214>>, e |-> -53],
      [neg |-> FALSE, m |-> <<3345, 22385, 17609, 222>>, e |-> -53],
      [neg |-> FALSE, m |-> <<16479, 18652, 16496, 230>>, e |-> -53],
      [neg |-> FALSE, m |-> <<7351, 16767, 23719, 238>>, e |-> -53],
      [neg |-> FALSE, m |-> <<9314, 19066, 7088, 247>>, e |-> -53],
      [neg |-> FALSE, m |-> <<32767, 32767, 32767, 255>>, e |-> -53],
      [neg |-> FALSE, m |-> <<29742, 30711, 17952, 132>>, e |-> -52],
      [neg |-> FALSE, m |-> <<29852, 12121, 8624, 137>>, e |-> -52],
      [neg |-> FALSE, m |-> <<995, 16823, 5190, 142>>, e |-> -52],
      [neg |-> FALSE, m |-> <<23169, 26603, 8098, 147>>, e |-> -52],
      [neg |-> FALSE, m |-> <<21118, 28194, 17840, 152>>, e |-> -52],
      [neg |-> FALSE, m |-> <<23791, 2727, 2190, 158>>, e |-> -52],
      [neg |-> FALSE, m |-> <<28190, 10081, 27280, 163>>, e |-> -52],
      [neg |-> FALSE, m |-> <<31000, 13221, 28237, 169>>, e |-> -52],
      [neg |-> FALSE, m |-> <<11128, 6375, 5796, 176>>, e |-> -52],
      [neg |-> FALSE, m |-> <<24871, 29401, 26310, 182>>, e |-> -52],
      [neg |-> FALSE, m |-> <<27059, 13122, 25159, 189>>, e |-> -52],
      [neg |-> FALSE, m |-> <<28686, 25466, 3365, 197>>, e |-> -52],
      [neg |-> FALSE, m |-> <<16646, 16924, 27617, 204>>, e |-> -52],
      [neg |-> FALSE, m |-> <<5804, 2947, 910, 213>>, e |-> -52],
      [neg |-> FALSE, m |-> <<19624, 20656, 23019, 221>>, e |-> -52],
      [neg |-> FALSE, m |-> <<499, 23466, 30084, 230>>, e |-> -52],
      [neg |-> FALSE, m |-> <<9618, 17580, 24018, 240>>, e |-> -52],
      [neg |-> FALSE, m |-> <<25584, 3069, 7017, 251>>, e |-> -52],
      [neg |-> FALSE, m |-> <<4583, 26279, 7190, 131>>, e |-> -51],
      [neg |-> FALSE, m |-> <<4837, 32026, 8140, 137>>, e |-> -51],
      [neg |-> FALSE, m |-> <<16754, 16792, 24456, 143>>, e |-> -51],
      [neg |-> FALSE, m |-> <<22150, 16406, 25380, 150>>, e |-> -51],
      [neg |-> FALSE, m |-> <<30167, 11298, 13289, 158>>, e |-> -51],
      [neg |-> FALSE, m |-> <<14209, 24320, 23779, 166>>, e |-> -51],
      [neg |-> FALSE, m |-> <<29399, 25072, 27477, 175>>, e |-> -51],
      [neg |-> FALSE, m |-> <<28895, 21316, 28491, 185>>, e |-> -51],
      [neg |-> FALSE, m |-> <<22446, 6073, 31842, 196>>, e |-> -51],
      [neg |-> FALSE, m |-> <<26397, 3622, 10963, 209>>, e |-> -51],
      [neg |-> FALSE, m |-> <<10345, 5758, 6374, 223>>, e |-> -51],
      [neg |-> FALSE, m |-> <<9814, 26712, 27893, 238>>, e |-> -51],
      [neg |-> FALSE, m |-> <<21445, 20583, 11304, 128>>, e |-> -50],
      [neg |-> FALSE, m |-> <<23190, 21179, 19897, 138>>, e |-> -50],
      [neg |-> FALSE, m |-> <<29320, 7263, 17962, 150>>, e |-> -50],
      [neg |-> FALSE, m |-> <<25672, 28568, 20503, 164>>, e |-> -50],
      [neg |-> FALSE, m |-> <<8499, 173, 15762, 181>>, e |-> -50],
      [neg |-> FALSE, m |-> <<26153, 10100, 1312, 202>>, e |-> -50],
      [neg |-> FALSE, m |-> <<23270, 30212, 22669, 227>>, e |-> -50],
      [neg |-> FALSE, m |-> <<25598, 3277, 10143, 130>>, e |-> -49],
      [neg |-> FALSE, m |-> <<14536, 3636, 7531, 152>>, e |-> -49],
      [neg |-> FALSE, m |-> <<23525, 8575, 28863, 182>>, e |-> -49],
      [neg |-> FALSE, m |-> <<11604, 23278, 26563, 228>>, e |-> -49],
      [neg |-> FALSE, m |-> <<19544, 16248, 21269, 152>>, e |-> -48],
      [neg |-> FALSE, m |-> <<6211, 32132, 2949, 229>>, e |-> -48],
      [neg |-> FALSE, m |-> <<6729, 27881, 5237, 229>>, e |-> -47],
      [neg |-> FALSE, m |-> <<19893, 30819, 2649, 232>>, e |-> 1],
      [neg |-> TRUE, m |-> <<6786, 27881, 5237, 229>>, e |-> -47],
      [neg |-> TRUE, m |-> <<6239, 32132, 2949, 229>>, e |-> -48],
      [neg |-> TRUE, m |-> <<19557, 16248, 21269, 152>>, e |-> -48],
      [neg |-> TRUE, m |-> <<11592, 23278, 26563, 228>>, e |-> -49],
      [neg |-> TRUE, m |-> <<23518, 8575, 28863, 182>>, e |-> -49],
      [neg |-> TRUE, m |-> <<14530, 3636, 7531, 152>>, e |-> -49],
      [neg |-> TRUE, m |-> <<25603, 3277, 10143, 130>>, e |-> -49],
      [neg |-> TRUE, m |-> <<23277, 30212, 22669, 227>>, e |-> -50],
      [neg |-> TRUE, m |-> <<26158, 10100, 1312, 202>>, e |-> -50],
      [neg |-> TRUE, m |-> <<8504, 173, 15762, 181>>, e |-> -50],
      [neg |-> TRUE, m |-> <<25676, 28568, 20503, 164>>, e |-> -50],
      [neg |-> TRUE, m |-> <<29323, 7263, 17962, 150>>, e |-> -50],
      [neg |-> TRUE, m |-> <<23187, 21179, 19897, 138>>, e |-> -50],
      [neg |-> TRUE, m |-> <<21443, 20583, 11304, 128>>, e |-> -50],
      [neg |-> TRUE, m |-> <<9811, 26712, 27893, 238>>, e |-> -51],
      [neg |-> TRUE, m |-> <<10348, 5758, 6374, 223>>, e |-> -51],
      [neg |-> TRUE, m |-> <<26401, 3622, 10963, 209>>, e |-> -51],
      [neg |-> TRUE, m |-> <<22448, 6073, 31842, 196>>, e |-> -51],
      [neg |-> TRUE, m |-> <<28897, 21316, 28491, 185>>, e |-> -51],
      [neg |-> TRUE, m |-> <<29401, 25072, 27477, 175>>, e |-> -51],
      [neg |-> TRUE, m |-> <<14211, 24320, 23779, 166>>, e |-> -51],
      [neg |-> TRUE, m |-> <<30165, 11298, 13289, 158>>, e |-> -51],
      [neg |-> TRUE, m |-> <<22149, 16406, 25380, 150>>, e |-> -51],
      [neg |-> TRUE, m |-> <<16752, 16792, 24456, 143>>, e |-> -51],
      [neg |-> TRUE, m |-> <<4839, 32026, 8140, 137>>, e |-> -51],
      [neg |-> TRUE, m |-> <<4582, 26279, 7190, 131>>, e |-> -51],
      [neg |-> TRUE, m |-> <<25587, 3069, 7017, 251>>, e |-> -52],
      [neg |-> TRUE, m |-> <<9616, 17580, 24018, 240>>, e |-> -52],
      [neg |-> TRUE, m |-> <<501, 23466, 30084, 230>>, e |-> -52],
      [neg |-> TRUE, m |-> <<19631, 20656, 23019, 221>>, e |-> -52],
      [neg |-> TRUE, m |-> <<5802, 2947, 910, 213>>, e |-> -52],
      [neg |-> TRUE, m |-> <<16648, 16924, 27617, 204>>, e |-> -52],
      [neg |-> TRUE, m |-> <<28685, 25466, 3365, 197>>, e |-> -52],
      [neg |-> TRUE, m |-> <<27061, 13122, 25159, 189>>, e |-> -52],
      [neg |-> TRUE, m |-> <<24870, 29401, 26310, 182>>, e |-> -52],
      [neg |-> TRUE, m |-> <<11130, 6375, 5796, 176>>, e |-> -52],
      [neg |-> TRUE, m |-> <<30999, 13221, 28237, 169>>, e |-> -52],
      [neg |-> TRUE, m |-> <<28190, 10081, 27280, 163>>, e |-> -52],
      [neg |-> TRUE, m |-> <<23793, 2727, 2190, 158>>, e |-> -52],
      [neg |-> TRUE, m |-> <<21118, 28194, 17840, 152>>, e |-> -52],
      [neg |-> TRUE, m |-> <<23172, 26603, 8098, 147>>, e |-> -52],
      [neg |-> TRUE, m |-> <<994, 16823, 5190, 142>>, e |-> -52],
      [neg |-> TRUE, m |-> <<29853, 12121, 8624, 137>>, e |-> -52],
      [neg |-> TRUE, m |-> <<29741, 30711, 17952, 132>>, e |-> -52],
      [neg |-> TRUE, m |-> <<1, 0, 0, 128>>, e |-> -52],
      [neg |-> TRUE, m |-> <<9312, 19066, 7088, 247>>, e |-> -53],
      [neg |-> TRUE, m |-> <<7351, 16767, 23719, 238>>, e |-> -53],
      [neg |-> TRUE, m |-> <<16483, 18652, 16496, 230>>, e |-> -53],
      [neg |-> TRUE, m |-> <<3345, 22385, 17609, 222>>, e |-> -53],
      [neg |-> TRUE, m |-> <<16161, 28799, 26525, 214>>, e |-> -53],
      [neg |-> TRUE, m |-> <<10294, 26841, 9984, 207>>, e |-> -53],
      [neg |-> TRUE, m |-> <<19604, 28075, 298, 200>>, e |-> -53],
      [neg |-> TRUE, m |-> <<14094, 17469, 29813, 192>>, e |-> -53],
      [neg |-> TRUE, m |-> <<30020, 15163, 32600, 185>>, e |-> -53],
      [neg |-> TRUE, m |-> <<16249, 18241, 8294, 179>>, e |-> -53],
      [neg |-> TRUE, m |-> <<17958, 17709, 22091, 172>>, e |-> -53],
      [neg |-> TRUE, m |-> <<22034, 23971, 8137, 166>>, e |-> -53],
      [neg |-> TRUE, m |-> <<9493, 1454, 31672, 159>>, e |-> -53],
      [neg |-> TRUE, m |-> <<12192, 6411, 26880, 153>>, e |-> -53],
      [neg |-> TRUE, m |-> <<13084, 2848, 26269, 147>>, e |-> -53],
      [neg |-> TRUE, m |-> <<14784, 11255, 29593, 141>>, e |-> -53],
      [neg |-> TRUE, m |-> <<16091, 32509, 3853, 136>>, e |-> -53],
      [neg |-> TRUE, m |-> <<23901, 8579, 14369, 130>>, e |-> -53],
      [neg |-> TRUE, m |-> <<23793, 32394, 23562, 249>>, e |-> -54],
      [neg |-> TRUE, m |-> <<6834, 9939, 24560, 238>>, e |-> -54],
      [neg |-> TRUE, m |-> <<2579, 26962, 31361, 227>>, e |-> -54],
      [neg |-> TRUE, m |-> <<8863, 22220, 10849, 217>>, e |-> -54],
      [neg |-> TRUE, m |-> <<3397, 8536, 28227, 206>>, e |-> -54],
      [neg |-> TRUE, m |-> <<7430, 27211, 17641, 196>>, e |-> -54],
      [neg |-> TRUE, m |-> <<728, 7794, 11559, 186>>, e |-> -54],
      [neg |-> TRUE, m |-> <<5649, 24344, 9690, 176>>, e |-> -54],
      [neg |-> TRUE, m |-> <<25009, 30354, 11759, 166>>, e |-> -54],
      [neg |-> TRUE, m |-> <<27480, 22303, 17501, 156>>, e |-> -54],
      [neg |-> TRUE, m |-> <<15139, 8974, 26661, 146>>, e |-> -54],
      [neg |-> TRUE, m |-> <<19803, 15677, 6225, 137>>, e |-> -54],
      [neg |-> TRUE, m |-> <<8021, 16944, 10219, 255>>, e |-> -55],
      [neg |-> TRUE, m |-> <<5532, 658, 13403, 236>>, e |-> -55],
      [neg |-> TRUE, m |-> <<9035, 22764, 21558, 217>>, e |-> -55],
      [neg |-> TRUE, m |-> <<20156, 28347, 1488, 199>>, e |-> -55],
      [neg |-> TRUE, m |-> <<19385, 22411, 18311, 180>>, e |-> -55],
      [neg |-> TRUE, m |-> <<20374, 30563, 6083, 162>>, e |-> -55],
      [neg |-> TRUE, m |-> <<20448, 28876, 29943, 143>>, e |-> -55],
      [neg |-> TRUE, m |-> <<7478, 13072, 15164, 251>>, e |-> -56],
      [neg |-> TRUE, m |-> <<7595, 27206, 8305, 215>>, e |-> -56],
      [neg |-> TRUE, m |-> <<21986, 26938, 5792, 179>>, e |-> -56],
      [neg |-> TRUE, m |-> <<12820, 29906, 6884, 143>>, e |-> -56],
      [neg |-> TRUE, m |-> <<15982, 2126, 21701, 214>>, e |-> -57],
      [neg |-> TRUE, m |-> <<8155, 11180, 1162, 143>>, e |-> -57],
      [neg |-> TRUE, m |-> <<9228, 10273, 32502, 142>>, e |-> -58],
      [neg |-> TRUE, m |-> <<23559, 26152, 6296, 141>>, e |-> -105],
      [neg |-> FALSE, m |-> <<9286, 10273, 32502, 142>>, e |-> -58],
      [neg |-> FALSE, m |-> <<8119, 11180, 1162, 143>>, e |-> -57],
      [neg |-> FALSE, m |-> <<15947, 2126, 21701, 214>>, e |-> -57],
      [neg |-> FALSE, m |-> <<12802, 29906, 6884, 143>>, e |-> -56],
      [neg |-> FALSE, m |-> <<21969, 26938, 5792, 179>>, e |-> -56],
      [neg |-> FALSE, m |-> <<7577, 27206, 8305, 215>>, e |-> -56],
      [neg |-> FALSE, m |-> <<7460, 13072, 15164, 251>>, e |-> -56],
      [neg |-> FALSE, m |-> <<20455, 28876, 29943, 143>>, e |-> -55],
      [neg |-> FALSE, m |-> <<20365, 30563, 6083, 162>>, e |-> -55],
      [neg |-> FALSE, m |-> <<19392, 22411, 18311, 180>>, e |-> -55],
      [neg |-> FALSE, m |-> <<20147, 28347, 1488, 199>>, e |-> -55],
      [neg |-> FALSE, m |-> <<9042, 22764, 21558, 217>>, e |-> -55],
      [neg |-> FALSE, m |-> <<5523, 658, 13403, 236>>, e |-> -55],
      [neg |-> FALSE, m |-> <<8011, 16944, 10219, 255>>, e |-> -55],
      [neg |-> FALSE, m |-> <<19798, 15677, 6225, 137>>, e |-> -54],
      [neg |-> FALSE, m |-> <<15135, 8974, 26661, 146>>, e |-> -54],
      [neg |-> FALSE, m |-> <<27484, 22303, 17501, 156>>, e |-> -54],
      [neg |-> FALSE, m |-> <<25004, 30354, 11759, 166>>, e |-> -54],
      [neg |-> FALSE, m |-> <<5653, 24344, 9690, 176>>, e |-> -54],
      [neg |-> FALSE, m |-> <<723, 7794, 11559, 186>>, e |-> -54],
      [neg |-> FALSE, m |-> <<7434, 27211, 17641, 196>>, e |-> -54],
      [neg |-> FALSE, m |-> <<3392, 8536, 28227, 206>>, e |-> -54],
      [neg |-> FALSE, m |-> <<8858, 22220, 10849, 217>>, e |-> -54],
      [neg |-> FALSE, m |-> <<2573, 26962, 31361, 227>>, e |-> -54],
      [neg |-> FALSE, m |-> <<6829, 9939, 24560, 238>>, e |-> -54],
      [neg |-> FALSE, m |-> <<23797, 32394, 23562, 249>>, e |-> -54],
      [neg |-> FALSE, m |-> <<23899, 8579, 14369, 130>>, e |-> -53],
      [neg |-> FALSE, m |-> <<16093, 32509, 3853, 136>>, e |-> -53],
      [neg |-> FALSE, m |-> <<14781, 11255, 29593, 141>>, e |-> -53],
      [neg |-> FALSE, m |-> <<13086, 2848, 26269, 147>>, e |-> -53],
      [neg |-> FALSE, m |-> <<12189, 6411, 26880, 153>>, e |-> -53],
      [neg |-> FALSE, m |-> <<9490, 1454, 31672, 159>>, e |-> -53],
      [neg |-> FALSE, m |-> <<22031, 23971, 8137, 166>>, e |-> -53],
      [neg |-> FALSE, m |-> <<17954, 17709, 22091, 172>>, e |-> -53],
      [neg |-> FALSE, m |-> <<16251, 18241, 8294, 179>>, e |-> -53],
      [neg |-> FALSE, m |-> <<30017, 15163, 32600, 185>>, e |-> -53],
      [neg |-> FALSE, m |-> <<14097, 17469, 29813, 192>>, e |-> -53],
      [neg |-> FALSE, m |-> <<19601, 28075, 298, 200>>, e |-> -53],
      [neg |-> FALSE, m |-> <<10297, 26841, 9984, 207>>, e |-> -53],
      [neg |-> FALSE, m |-> <<16157, 28799, 26525, 214>>, e |-> -53],
      [neg |-> FALSE, m |-> <<3341, 22385, 17609, 222>>, e |-> -53],
      [neg |-> FALSE, m |-> <<16479, 18652, 16496, 230>>, e |-> -53],
      [neg |-> FALSE, m |-> <<7347, 16767, 23719, 238>>, e |-> -53],
      [neg |-> FALSE, m |-> <<9316, 19066, 7088, 247>>, e |-> -53],
      [neg |-> FALSE, m |-> <<32765, 32767, 32767, 255>>, e |-> -53],
      [neg |-> FALSE, m |-> <<29742, 30711, 17952, 132>>, e |-> -52],
      [neg |-> FALSE, m |-> <<29851, 12121, 8624, 137>>, e |-> -52],
      [neg |-> FALSE, m |-> <<996, 16823, 5190, 142>>, e |-> -52],
      [neg |-> FALSE, m |-> <<23169, 26603, 8098, 147>>, e |-> -52],
      [neg |-> FALSE, m |-> <<21115, 28194, 17840, 152>>, e |-> -52],
      [neg |-> FALSE, m |-> <<23785, 2727, 2190, 158>>, e |-> -52],
      [neg |-> FALSE, m |-> <<28193, 10081, 27280, 163>>, e |-> -52],
      [neg |-> FALSE, m |-> <<31001, 13221, 28237, 169>>, e |-> -52],
      [neg |-> FALSE, m |-> <<11127, 6375, 5796, 176>>, e |-> -52],
      [neg |-> FALSE, m |-> <<24867, 29401, 26310, 182>>, e |-> -52],
      [neg |-> FALSE, m |-> <<27063, 13122, 25159, 189>>, e |-> -52],
      [neg |-> FALSE, m |-> <<28688, 25466, 3365, 197>>, e |-> -52],
      [neg |-> FALSE, m |-> <<16644, 16924, 27617, 204>>, e |-> -52],
      [neg |-> FALSE, m |-> <<5798, 2947, 910, 213>>, e |-> -52],
      [neg |-> FALSE, m |-> <<19618, 20656, 23019, 221>>, e |-> -52],
      [neg |-> FALSE, m |-> <<505, 23466, 30084, 230>>, e |-> -52],
      [neg |-> FALSE, m |-> <<9620, 17580, 24018, 240>>, e |-> -52],
      [neg |-> FALSE, m |-> <<25581, 3069, 7017, 251>>, e |-> -52],
      [neg |-> FALSE, m |-> <<4579, 26279, 7190, 131>>, e |-> -51],
      [neg |-> FALSE, m |-> <<4841, 32026, 8140, 137>>, e |-> -51],
      [neg |-> FALSE, m |-> <<16755, 16792, 24456, 143>>, e |-> -51],
      [neg |-> FALSE, m |-> <<22148, 16406, 25380, 150>>, e |-> -51],
      [neg |-> FALSE, m |-> <<30161, 11298, 13289, 158>>, e |-> -51],
      [neg |-> FALSE, m |-> <<14203, 24320, 23779, 166>>, e |-> -51],
      [neg |-> FALSE, m |-> <<29405, 25072, 27477, 175>>, e |-> -51],
      [neg |-> FALSE, m |-> <<28897, 21316, 28491, 185>>, e |-> -51],
      [neg |-> FALSE, m |-> <<22443, 6073, 31842, 196>>, e |-> -51],
      [neg |-> FALSE, m |-> <<26388, 3622, 10963, 209>>, e |-> -51],
      [neg |-> FALSE, m |-> <<10354, 5758, 6374, 223>>, e |-> -51],
      [neg |-> FALSE, m |-> <<9817, 26712, 27893, 238>>, e |-> -51],
      [neg |-> FALSE, m |-> <<21443, 20583, 11304, 128>>, e |-> -50],
      [neg |-> FALSE, m |-> <<23182, 21179, 19897, 138>>, e |-> -50],
      [neg |-> FALSE, m |-> <<29311, 7263, 17962, 150>>, e |-> -50],
      [neg |-> FALSE, m |-> <<25682, 28568, 20503, 164>>, e |-> -50],
      [neg |-> FALSE, m |-> <<8503, 173, 15762, 181>>, e |-> -50],
      [neg |-> FALSE, m |-> <<26147, 10100, 1312, 202>>, e |-> -50],
      [neg |-> FALSE, m |-> <<23250, 30212, 22669, 227>>, e |-> -50],
      [neg |-> FALSE, m |-> <<25610, 3277, 10143, 130>>, e |-> -49],
      [neg |-> FALSE, m |-> <<14541, 3636, 7531, 152>>, e |-> -49],
      [neg |-> FALSE, m |-> <<23516, 8575, 28863, 182>>, e |-> -49],
      [neg |-> FALSE, m |-> <<11564, 23278, 26563, 228>>, e |-> -49],
      [neg |-> FALSE, m |-> <<19509, 16248, 21269, 152>>, e |-> -48],
      [neg |-> FALSE, m |-> <<6285, 32132, 2949, 229>>, e |-> -48],
      [neg |-> FALSE, m |-> <<6775, 27881, 5237, 229>>, e |-> -47],
      [neg |-> FALSE, m |-> <<2339, 31469, 23611, 154>>, e |-> 0],
      [neg |-> TRUE, m |-> <<6945, 27881, 5237, 229>>, e |-> -47],
      [neg |-> TRUE, m |-> <<6165, 32132, 2949, 229>>, e |-> -48],
      [neg |-> TRUE, m |-> <<19547, 16248, 21269, 152>>, e |-> -48],
      [neg |-> TRUE, m |-> <<11606, 23278, 26563, 228>>, e |-> -49],
      [neg |-> TRUE, m |-> <<23543, 8575, 28863, 182>>, e |-> -49],
      [neg |-> TRUE, m |-> <<14560, 3636, 7531, 152>>, e |-> -49],
      [neg |-> TRUE, m |-> <<25591, 3277, 10143, 130>>, e |-> -49],
      [neg |-> TRUE, m |-> <<23272, 30212, 22669, 227>>, e |-> -50],
      [neg |-> TRUE, m |-> <<26164, 10100, 1312, 202>>, e |-> -50],
      [neg |-> TRUE, m |-> <<8517, 173, 15762, 181>>, e |-> -50],
      [neg |-> TRUE, m |-> <<25666, 28568, 20503, 164>>, e |-> -50],
      [neg |-> TRUE, m |-> <<29321, 7263, 17962, 150>>, e |-> -50],
      [neg |-> TRUE, m |-> <<23190, 21179, 19897, 138>>, e |-> -50],
      [neg |-> TRUE, m |-> <<21450, 20583, 11304, 128>>, e |-> -50],
      [neg |-> TRUE, m |-> <<9830, 26712, 27893, 238>>, e |-> -51],
      [neg |-> TRUE, m |-> <<10339, 5758, 6374, 223>>, e |-> -51],
      [neg |-> TRUE, m |-> <<26398, 3622, 10963, 209>>, e |-> -51],
      [neg |-> TRUE, m |-> <<22451, 6073, 31842, 196>>, e |-> -51],
      [neg |-> TRUE, m |-> <<28905, 21316, 28491, 185>>, e |-> -51],
      [neg |-> TRUE, m |-> <<29395, 25072, 27477, 175>>, e |-> -51],
      [neg |-> TRUE, m |-> <<14210, 24320, 23779, 166>>, e |-> -51],
      [neg |-> TRUE, m |-> <<30167, 11298, 13289, 158>>, e |-> -51],
      [neg |-> TRUE, m |-> <<22154, 16406, 25380, 150>>, e |-> -51],
      [neg |-> TRUE, m |-> <<16760, 16792, 24456, 143>>, e |-> -51],
      [neg |-> TRUE, m |-> <<4835, 32026, 8140, 137>>, e |-> -51],
      [neg |-> TRUE, m |-> <<4584, 26279, 7190, 131>>, e |-> -51],
      [neg |-> TRUE, m |-> <<25589, 3069, 7017, 251>>, e |-> -52],
      [neg |-> TRUE, m |-> <<9627, 17580, 24018, 240>>, e |-> -52],
      [neg |-> TRUE, m |-> <<495, 23466, 30084, 230>>, e |-> -52],
      [neg |-> TRUE, m |-> <<19625, 20656, 23019, 221>>, e |-> -52],
      [neg |-> TRUE, m |-> <<5804, 2947, 910, 213>>, e |-> -52],
      [neg |-> TRUE, m |-> <<16649, 16924, 27617, 204>>, e |-> -52],
      [neg |-> TRUE, m |-> <<28694, 25466, 3365, 197>>, e |-> -52],
      [neg |-> TRUE, m |-> <<27056, 13122, 25159, 189>>, e |-> -52],
      [neg |-> TRUE, m |-> <<24872, 29401, 26310, 182>>, e |-> -52],
      [neg |-> TRUE, m |-> <<11132, 6375, 5796, 176>>, e |-> -52],
      [neg |-> TRUE, m |-> <<31006, 13221, 28237, 169>>, e |-> -52],
      [neg |-> TRUE, m |-> <<28187, 10081, 27280, 163>>, e |-> -52],
      [neg |-> TRUE, m |-> <<23790, 2727, 2190, 158>>, e |-> -52],
      [neg |-> TRUE, m |-> <<21119, 28194, 17840, 152>>, e |-> -52],
      [neg |-> TRUE, m |-> <<23173, 26603, 8098, 147>>, e |-> -52],
      [neg |-> TRUE, m |-> <<1000, 16823, 5190, 142>>, e |-> -52],
      [neg |-> TRUE, m |-> <<29850, 12121, 8624, 137>>, e |-> -52],
      [neg |-> TRUE, m |-> <<29742, 30711, 17952, 132>>, e |-> -52],
      [neg |-> TRUE, m |-> <<2, 0, 0, 128>>, e |-> -52],
      [neg |-> TRUE, m |-> <<9322, 19066, 7088, 247>>, e |-> -53],
      [neg |-> TRUE, m |-> <<7346, 16767, 23719, 238>>, e |-> -53],
      [neg |-> TRUE, m |-> <<16478, 18652, 16496, 230>>, e |-> -53],
      [neg |-> TRUE, m |-> <<3347, 22385, 17609, 222>>, e |-> -53],
      [neg |-> TRUE, m |-> <<16163, 28799, 26525, 214>>, e |-> -53],
      [neg |-> TRUE, m |-> <<10303, 26841, 9984, 207>>, e |-> -53],
      [neg |-> TRUE, m |-> <<19599, 28075, 298, 200>>, e |-> -53],
      [neg |-> TRUE, m |-> <<14096, 17469, 29813, 192>>, e |-> -53],
      [neg |-> TRUE, m |-> <<30022, 15163, 32600, 185>>, e |-> -53],
      [neg |-> TRUE, m |-> <<16256, 18241, 8294, 179>>, e |-> -53],
      [neg |-> TRUE, m |-> <<17953, 17709, 22091, 172>>, e |-> -53],
      [neg |-> TRUE, m |-> <<22030, 23971, 8137, 166>>, e |-> -53],
      [neg |-> TRUE, m |-> <<9495, 1454, 31672, 159>>, e |-> -53],
      [neg |-> TRUE, m |-> <<12193, 6411, 26880, 153>>, e |-> -53],
      [neg |-> TRUE, m |-> <<13091, 2848, 26269, 147>>, e |-> -53],
      [neg |-> TRUE, m |-> <<14780, 11255, 29593, 141>>, e |-> -53],
      [neg |-> TRUE, m |-> <<16092, 32509, 3853, 136>>, e |-> -53],
      [neg |-> TRUE, m |-> <<23903, 8579, 14369, 130>>, e |-> -53],
      [neg |-> TRUE, m |-> <<23805, 32394, 23562, 249>>, e |-> -54],
      [neg |-> TRUE, m |-> <<6827, 9939, 24560, 238>>, e |-> -54],
      [neg |-> TRUE, m |-> <<2572, 26962, 31361, 227>>, e |-> -54],
      [neg |-> TRUE, m |-> <<8866, 22220, 10849, 217>>, e |-> -54],
      [neg |-> TRUE, m |-> <<3399, 8536, 28227, 206>>, e |-> -54],
      [neg |-> TRUE, m |-> <<7441, 27211, 17641, 196>>, e |-> -54],
      [neg |-> TRUE, m |-> <<721, 7794, 11559, 186>>, e |-> -54],
      [neg |-> TRUE, m |-> <<5651, 24344, 9690, 176>>, e |-> -54],
      [neg |-> TRUE, m |-> <<25011, 30354, 11759, 166>>, e |-> -54],
      [neg |-> TRUE, m |-> <<27491, 22303, 17501, 156>>, e |-> -54],
      [neg |-> TRUE, m |-> <<15133, 8974, 26661, 146>>, e |-> -54],
      [neg |-> TRUE, m |-> <<19797, 15677, 6225, 137>>, e |-> -54],
      [neg |-> TRUE, m |-> <<8025, 16944, 10219, 255>>, e |-> -55],
      [neg |-> TRUE, m |-> <<5537, 658, 13403, 236>>, e |-> -55],
      [neg |-> TRUE, m |-> <<9056, 22764, 21558, 217>>, e |-> -55],
      [neg |-> TRUE, m |-> <<20144, 28347, 1488, 199>>, e |-> -55],
      [neg |-> TRUE, m |-> <<19389, 22411, 18311, 180>>, e |-> -55],
      [neg |-> TRUE, m |-> <<20379, 30563, 6083, 162>>, e |-> -55],
      [neg |-> TRUE, m |-> <<20469, 28876, 29943, 143>>, e |-> -55],
      [neg |-> TRUE, m |-> <<7455, 13072, 15164, 251>>, e |-> -56],
      [neg |-> TRUE, m |-> <<7571, 27206, 8305, 215>>, e |-> -56],
      [neg |-> TRUE, m |-> <<21995, 26938, 5792, 179>>, e |-> -56],
      [neg |-> TRUE, m |-> <<12829, 29906, 6884, 143>>, e |-> -56],
      [neg |-> TRUE, m |-> <<16064, 2126, 21701, 214>>, e |-> -57],
      [neg |-> TRUE, m |-> <<8108, 11180, 1162, 143>>, e |-> -57],
      [neg |-> TRUE, m |-> <<9264, 10273, 32502, 142>>, e |-> -58]
    >>

\* np.tan(np.radians(inc)) for an increment of -359 to 359 degrees, the
\* differences of two bearings of a turn: tan and radians are odd.
TanRadians(inc) ==
    LET t == TanOfDegrees[Abs(inc) + 1]
    IN  [neg |-> t.m # <<>> /\ (t.neg # (inc < 0)), m |-> t.m, e |-> t.e]

\* SensorAidedStitcher: pixels_per_degree = focal_length *
\* np.tan(np.radians(angle_increment)), with its sign.
PixelsPerDegree(w, inc) ==
    LET t == TanRadians(inc)
        p == F64Mul(FocalLength(w), t)
    IN  [neg |-> t.neg, m |-> p.m, e |-> p.e]

\* SensorAidedStitcher: canvas_width = int(pixels_per_degree * 360.0).
SensorCanvasWidth(w, inc) ==
    LET p == PixelsPerDegree(w, inc)
    IN  F64Int(p.neg, F64Mul(p, F64(360)))

\* SensorAidedStitcher: expected_x = int(angle * pixels_per_degree).
SensorExpectedX(angle, w, inc) ==
    LET p == PixelsPerDegree(w, inc)
    IN  F64Int(p.neg # (angle < 0), F64Mul(F64(Abs(angle)), p))

(***************************************************************************)
(* Feather masks: float32 arrays of weights.                               *)
(***************************************************************************)
\* SensorAidedStitcher: weights[:, c] for a frame of width w (bw <= w): ones,
\* then the left ramp x / bw, then the right ramp 1.0 - (x / bw) at
\* w - bw + x.  The float64 1.0 - (x / bw) stored into the float32 array is
\* the float32 nearest to (bw - x) / bw.
SensorWeight(c, w, bw) ==
    IF c >= w - bw THEN F32Ratio(bw - (c - (w - bw)), bw)
    ELSE IF c < bw THEN F32Ratio(c, bw)
    ELSE F32(1)

\* A mask whose right ramp is measured from the ramp's first column instead
\* of the frame's end: (w - bw - x) / bw, which is negative.
SignedMask(c, w, bw) ==
    IF c >= Max(0, w - bw) THEN F32Ratio((w - bw) - c, bw)
    ELSE IF c < Min(bw, w) THEN F32Ratio(c, bw)
    ELSE F32(1)

\* SimpleAngleStitcher: mask[:, c]: ones, then x / bw over the first
\* min(bw, w) columns, then (w - x) / bw from column max(0, w - bw) on.
SimpleMask(c, w, bw) ==
    IF c >= Max(0, w - bw) THEN F32Ratio(w - c, bw)
    ELSE IF c < Min(bw, w) THEN F32Ratio(c, bw)
    ELSE F32(1)

(***************************************************************************)
(* Projection: _cylindrical_warp of every kept frame (cv2.remap).          *)
(***************************************************************************)
Project ==
    /\ pc = "loaded"
    /\ strategy \in {"simple_angle", "sensor_aided", "manual"}
    /\ \/ /\ pc' = "warped"
          /\ warped_count' =
                IF strategy = "manual" /\ config.projection # "cylindrical"
                   THEN 0 ELSE Len(images)
          /\ UNCHANGED <<ret, exception, self>>
       \/ \* cv2.remap fails on some frame
          /\ ~(strategy = "manual" /\ config.projection # "cylindrical")
          /\ Raise("cv2.error")
          /\ UNCHANGED warped_count
    /\ UNCHANGED <<strategy, image_paths, config, images, read_count, canvas_width,
                   canvas, weight_map, offsets, closure,
                   outside>>

(***************************************************************************)
(* Canvas allocation: np.zeros((canvas_height, canvas_width, 3)).          *)
(***************************************************************************)
\* canvas_width as each angle-based strategy computes it.
AngleCanvasWidth ==
    IF strategy = "simple_angle" THEN SimpleCanvasWidth(FrameW)
    ELSE SensorCanvasWidth(FrameW, angle_increment)

\* A buffer of zeros: only the columns written to are kept, every other
\* column of 0..canvas_width-1 holds 0.
Zeros == [c \in {} |-> 0]

\* buffer[c]
At(buffer, c) == IF c \in DOMAIN buffer THEN buffer[c] ELSE 0

\* buffer[c] of a float32 buffer.
At32(buffer, c) == IF c \in DOMAIN buffer THEN buffer[c] ELSE F32Zero

Allocate ==
    /\ pc = "warped"
    /\ strategy \in {"simple_angle", "sensor_aided"}
    /\ IF strategy = "sensor_aided"
             /\ Infinity \in {images[1].angle, images[2].angle}
       THEN \* an infinite or undefined angle_increment: np.tan gives nan, and
            \* int(nan) cannot convert float NaN to integer
            /\ Raise("ValueError")
            /\ UNCHANGED <<canvas_width, canvas, weight_map>>
       ELSE \E width \in {AngleCanvasWidth} :
       IF width < 0
          THEN \* negative dimensions are not allowed
               /\ Raise("ValueError")
               /\ UNCHANGED <<canvas_width, canvas, weight_map>>
          ELSE /\ canvas_width' = width
               /\ canvas' = Zeros
               /\ weight_map' = Zeros
               /\ pc' = "placing"
               /\ UNCHANGED <<ret, exception, self>>
    /\ UNCHANGED <<strategy, image_paths, config, images, read_count, warped_count,
                   offsets, closure,
                   outside>>

(***************************************************************************)
(* SensorAidedStitcher._find_constrained_offset.                           *)
(***************************************************************************)
\* search_width = int(w * self.overlap_search_width), the fraction being 0.3.
SearchWidth(w) == (w * 3) \div 10

\* np.clip(v, lo, hi) = minimum(maximum(v, lo), hi): hi when lo > hi.
NpClip(v, lo, hi) == Min(Max(v, lo), hi)

\* What feature matching between the two overlap windows can give for a
\* previous frame of width w: no usable matches (fewer than 4 key points or
\* fewer than 4 matches that pass the ratio test), or the median d of
\* pts2.x - pts1.x, pts1.x in [w - search_width, w), pts2.x in [0, search_width).
MatchOutcomes(w) ==
    {[found |-> FALSE, d |-> 0]} \cup
    {[found |-> TRUE, d |-> d] : d \in (0 - w)..(2 * SearchWidth(w) - w)}

\* The refined offset without the np.clip of lines 173-178: the truncated
\* median as it is.
UnclampedOffset(expected_offset, match) ==
    IF ~match.found THEN expected_offset ELSE expected_offset + match.d

\* The refined offset of a function that answers 0 where it has no matches
\* to go by.
ZeroWithoutMatches(expected_offset, match) ==
    IF ~match.found THEN 0
    ELSE LET max_adjustment == TruncDiv(expected_offset, 5)
         IN  NpClip(expected_offset + match.d,
                    expected_offset - max_adjustment,
                    expected_offset + max_adjustment)

\* The refined offset returned for an expected offset and a match outcome:
\* the expected offset itself without matches, else int(median) clipped to
\* expected +/- int(expected * 0.2).
FindConstrainedOffset(expected_offset, match) ==
    IF ~match.found THEN expected_offset
    ELSE LET max_adjustment == TruncDiv(expected_offset, 5)
         IN  NpClip(expected_offset + match.d,
                    expected_offset - max_adjustment,
                    expected_offset + max_adjustment)

(***************************************************************************)
(* Placing one frame on the canvas.                                        *)
(***************************************************************************)
\* The frame the placement loop handles next.
NextIndex == Len(offsets) + 1

\* SimpleAngleStitcher: the loop over the w columns of the mask; column x of
\* the frame goes to canvas column (x_pos + x) % canvas_width.
SimplePlaceAt(x_pos) ==
    LET e == images[NextIndex]
        w == FrameW
        bw == config.blend_width
        target == [x \in 0..(w - 1) |-> (x_pos + x) % canvas_width]
        hit(c) == {x \in 0..(w - 1) : target[x] = c}
    IN  IF FileWidth(e.path) < w
           THEN \* warped[:, x:x+1] is empty for x past the frame's width
                /\ Raise("ValueError")
                /\ UNCHANGED <<canvas, weight_map, offsets>>
           ELSE /\ canvas' =
                    [c \in DOMAIN canvas \cup Range(target) |->
                        IF hit(c) = {} THEN canvas[c]
                        ELSE LET x == CHOOSE y \in hit(c) : TRUE
                             IN  F32Add(At32(canvas, c),
                                        F32Mul(F32(WarpedPixel(e.path, x)),
                                               SimpleMask(x, w, bw)))]
                /\ weight_map' =
                    [c \in DOMAIN weight_map \cup Range(target) |->
                        IF hit(c) = {} THEN weight_map[c]
                        ELSE LET x == CHOOSE y \in hit(c) : TRUE
                             IN  F32Add(At32(weight_map, c), SimpleMask(x, w, bw))]
                /\ offsets' = Append(offsets,
                        [path |-> e.path, angle |-> e.angle, expected_x |-> x_pos,
                         actual_x |-> x_pos, expected_offset |-> 0,
                         tuned |-> FALSE, matched |-> FALSE, written |-> target])
                /\ UNCHANGED <<pc, ret, exception, self>>

\* SimpleAngleStitcher: one turn of the placement loop, at the x_pos of the
\* frame's angle.
SimplePlace ==
    IF images[NextIndex].angle = Infinity
       THEN \* int(inf): cannot convert float infinity to integer
            /\ Raise("OverflowError")
            /\ UNCHANGED <<canvas, weight_map, offsets>>
       ELSE \E x_pos \in {SimpleXPos(images[NextIndex].angle, FrameW)} :
                SimplePlaceAt(x_pos)

\* SensorAidedStitcher: canvas[:, x_start:x_end] (+)= img[:, :img_width] (* weights).
SensorPlaceAt(e, actual_x, expected_x, expected_offset, tuned, matched) ==
    LET w == FrameW
        bw == config.blend_width
        iw == FileWidth(e.path)
        x_start == actual_x
        x_end == Min(actual_x + w, canvas_width)
        img_width == x_end - x_start
        first == PyBound(x_start, canvas_width)
        l == SliceLen(x_start, x_end, canvas_width)
        slice == first..(first + l - 1)
        a == PyBound(img_width, iw)
        b == PyBound(img_width, w)
        col(j, n) == IF n = 1 THEN 0 ELSE j
        written == [x \in (IF a = 1 THEN 0..(Min(l, 1) - 1) ELSE 0..(l - 1)) |-> first + x]
        rec == [path |-> e.path, angle |-> e.angle, expected_x |-> expected_x,
                actual_x |-> actual_x, expected_offset |-> expected_offset,
                tuned |-> tuned, matched |-> matched, written |-> written]
    IN  IF config.debug_mode
           THEN IF ~StoresInto(a, l)
                   THEN /\ Raise("ValueError")
                        /\ UNCHANGED <<canvas, weight_map, offsets>>
                   ELSE /\ canvas' =
                            [c \in DOMAIN canvas \cup slice |->
                                IF c \in slice
                                   THEN F32(WarpedPixel(e.path, col(c - first, a)))
                                   ELSE canvas[c]]
                        /\ weight_map' =
                            [c \in DOMAIN weight_map \cup slice |->
                                IF c \in slice THEN F32(1) ELSE weight_map[c]]
                        /\ offsets' = Append(offsets, rec)
                        /\ UNCHANGED <<pc, ret, exception, self>>
           ELSE IF bw > w
                   THEN \* weights[:, x] with x = w in the left feather loop
                        /\ Raise("IndexError")
                        /\ UNCHANGED <<canvas, weight_map, offsets>>
                ELSE IF ~StoresInto(Broadcast(a, b), l) \/ ~StoresInto(b, l)
                   THEN /\ Raise("ValueError")
                        /\ UNCHANGED <<canvas, weight_map, offsets>>
                   ELSE /\ canvas' =
                            [c \in DOMAIN canvas \cup slice |->
                                IF c \in slice
                                   THEN F32Add(At32(canvas, c),
                                            F32Mul(F32(WarpedPixel(e.path, col(c - first, a))),
                                                   SensorWeight(col(c - first, b), w, bw)))
                                   ELSE canvas[c]]
                        /\ weight_map' =
                            [c \in DOMAIN weight_map \cup slice |->
                                IF c \in slice
                                   THEN F32Add(At32(weight_map, c),
                                               SensorWeight(col(c - first, b), w, bw))
                                   ELSE weight_map[c]]
                        /\ offsets' = Append(offsets, rec)
                        /\ UNCHANGED <<pc, ret, exception, self>>

\* SensorAidedStitcher: one turn of the placement loop.
SensorPlaceFrom(expected_x) ==
    LET e == images[NextIndex]
    IN  IF NextIndex > 1 /\ config.use_fine_tuning
           THEN LET prev == offsets[Len(offsets)]
                    pw == FileWidth(prev.path)
                    expected_offset == expected_x - prev.actual_x
                IN  IF SearchWidth(pw) = 0
                       THEN \* cv2.cvtColor of an empty overlap window
                            /\ Raise("cv2.error")
                            /\ UNCHANGED <<canvas, weight_map, offsets>>
                       ELSE \E match \in MatchOutcomes(pw) :
                                SensorPlaceAt(e,
                                    prev.actual_x + FindConstrainedOffset(expected_offset, match),
                                    expected_x, expected_offset, TRUE, match.found)
           ELSE SensorPlaceAt(e, expected_x, expected_x, 0, FALSE, FALSE)

SensorPlace ==
    IF images[NextIndex].angle = Infinity
       THEN \* int(inf), and int(nan) for inf * 0.0
            /\ Raise(IF angle_increment = 0 THEN "ValueError" ELSE "OverflowError")
            /\ UNCHANGED <<canvas, weight_map, offsets>>
       ELSE \E expected_x \in {SensorExpectedX(images[NextIndex].angle, FrameW,
                                               angle_increment)} :
                SensorPlaceFrom(expected_x)

Place ==
    /\ pc = "placing"
    /\ strategy \in {"simple_angle", "sensor_aided"}
    /\ NextIndex <= Len(images)
    /\ IF strategy = "simple_angle" THEN SimplePlace ELSE SensorPlace
    /\ UNCHANGED <<strategy, image_paths, config, images, read_count, warped_count,
                   canvas_width, closure,
                   outside>>

(***************************************************************************)
(* After the placement loop of the angle-based strategies.                 *)
(***************************************************************************)
\* SimpleAngleStitcher: panorama[:, c] after weight_map[weight_map == 0] = 1,
\* the float32 canvas / weight_map and astype(np.uint8).
SimpleResult(c) ==
    IF At32(weight_map, c) = F32Zero THEN F32Trunc(F32Div(At32(canvas, c), F32(1)))
    ELSE F32Trunc(F32Div(canvas[c], weight_map[c]))

\* SimpleAngleStitcher: the whole canvas is the panorama.
SimpleFinish ==
    LET pano == [i \in 1..canvas_width |-> SimpleResult(i - 1)]
        stats == Put(Put(Put(InitialStats, "status", "success"),
                         "panorama_shape", canvas_width),
                     "canvas_width", canvas_width)
    IN  /\ pc' = "returned"
        /\ ret' = [none |-> FALSE, panorama |-> pano, x0 |-> 0, stats |-> stats]
        /\ exception' = ""
        /\ Record(stats)
        /\ closure' = closure

\* SensorAidedStitcher: result[:, c] after the float32 division
\* canvas[mask] /= weight_map[mask] for mask = weight_map > 0,
\* np.clip(canvas, 0, 255) and astype(np.uint8).
SensorResult(c) ==
    IF c \notin DOMAIN weight_map THEN 0
    ELSE IF weight_map[c].m > 0
       THEN Min(Max(F32Trunc(F32Div(canvas[c], weight_map[c])), 0), 255)
       ELSE Min(Max(F32Trunc(canvas[c]), 0), 255)

\* The columns of valid_mask = weight_map > 0.1, a float32 comparison.
ValidColumns ==
    {c \in DOMAIN weight_map : F32Less(F32Ratio(1, 10), weight_map[c])}

\* The bounding rectangle's first and last column (cv2.boundingRect).
LeastOf(S) == CHOOSE c \in S : \A v \in S : c <= v
GreatestOf(S) == CHOOSE c \in S : (c + 1) \notin S /\ \A v \in S : c >= v

\* SensorAidedStitcher: the loop-closure block, the division by the weights
\* where they are > 0, and the crop to the columns whose weight is > 0.1.
SensorFinish ==
    LET w == FrameW
        n == Len(offsets)
        closes == config.enable_loop_closure /\ n > 2
        first_x == offsets[1].actual_x
        last_x == offsets[n].actual_x
        expected_last_x ==
            SensorExpectedX(images[n].angle + angle_increment, w, angle_increment)
                % canvas_width
        closure_error == (expected_last_x - (last_x + w)) % canvas_width
        stats(width, ppd) ==
            [width |-> width, image_count |-> Len(images),
             pixels_per_degree |-> ppd,
             debug_mode |-> config.debug_mode]
    IN  IF closes /\ canvas_width = 0
           THEN \* ... % canvas_width
                /\ Raise("ZeroDivisionError")
                /\ closure' = closure
           ELSE /\ \E error \in {IF closes THEN closure_error ELSE 0} :
                    closure' =
                        IF closes
                           THEN [checked |-> TRUE, error |-> error,
                                 over |-> Abs(error) > 10]
                           ELSE closure
                /\ pc' = "returned"
                /\ exception' = ""
                /\ self' = self
                /\ \E valid \in {ValidColumns} :
                   \E x \in {IF valid = {} THEN 0 ELSE LeastOf(valid)} :
                   \E far \in {IF valid = {} THEN canvas_width - 1 ELSE GreatestOf(valid)} :
                   \E ppd \in {PixelsPerDegree(w, angle_increment)} :
                        ret' = [none |-> FALSE,
                                panorama |-> [i \in 1..(far - x + 1) |-> SensorResult(x + i - 1)],
                                x0 |-> x, stats |-> stats(far - x + 1, ppd)]

Finish ==
    /\ pc = "placing"
    /\ strategy \in {"simple_angle", "sensor_aided"}
    /\ NextIndex > Len(images)
    /\ IF strategy = "simple_angle" THEN SimpleFinish ELSE SensorFinish
    /\ UNCHANGED <<strategy, image_paths, config, images, read_count, warped_count,
                   canvas_width, canvas, weight_map, offsets,
                   outside>>

(***************************************************************************)
(* OpenCVAutoStitcher: cv2.Stitcher.stitch and the status it returns.      *)
(***************************************************************************)
\* The status codes of cv2.Stitcher: OK, ERR_NEED_MORE_IMGS,
\* ERR_HOMOGRAPHY_EST_FAIL and ERR_CAMERA_PARAMS_ADJUST_FAIL.
Stitcher_OK == 0
Stitcher_ERR_NEED_MORE_IMGS == 1
Stitcher_ERR_HOMOGRAPHY_EST_FAIL == 2
Stitcher_ERR_CAMERA_PARAMS_ADJUST_FAIL == 3

\* What cv2.Stitcher.stitch may return as status: the four codes and two
\* that the strategy has no name for.
StitcherStatuses == {0, 1, 2, 3, 4, -1}

\* A lookup whose default is the message of success:
\* status_messages.get(status, "Success").
DefaultIsSuccess(status) ==
    CASE status = Stitcher_ERR_NEED_MORE_IMGS -> "Need more images"
      [] status = Stitcher_ERR_HOMOGRAPHY_EST_FAIL -> "Homography estimation failed"
      [] status = Stitcher_ERR_CAMERA_PARAMS_ADJUST_FAIL ->
            "Camera parameters adjustment failed"
      [] OTHER -> "Success"

\* f"Unknown error ({status})"
UnknownError(status) == "Unknown error (" \o ToString(status) \o ")"

\* status_messages.get(status, f"Unknown error ({status})")
StatusMessage(status) ==
    CASE status = Stitcher_OK -> "Success"
      [] status = Stitcher_ERR_NEED_MORE_IMGS -> "Need more images"
      [] status = Stitcher_ERR_HOMOGRAPHY_EST_FAIL -> "Homography estimation failed"
      [] status = Stitcher_ERR_CAMERA_PARAMS_ADJUST_FAIL ->
            "Camera parameters adjustment failed"
      [] OTHER -> UnknownError(status)

\* The mosaic of the library, named by the frames it was given.
LibraryMosaic == [i \in DOMAIN images |-> FileTag(images[i].path)]

AutoStitch ==
    /\ pc = "loaded"
    /\ strategy = "opencv_auto"
    /\ \/ \E status \in StitcherStatuses :
            LET stats == Put(Put(InitialStats, "images_loaded", Len(images)),
                             "status", StatusMessage(status))
            IN  IF status = Stitcher_OK
                   THEN /\ pc' = "returned"
                        /\ ret' = [none |-> FALSE, panorama |-> LibraryMosaic,
                                   x0 |-> 0, stats |-> stats]
                        /\ exception' = ""
                        /\ Record(stats)
                   ELSE /\ Return(TRUE, <<>>, stats)
                        /\ Record(stats)
       \/ \* the library raises: the except clause adds the error, the status
          \* stays "unknown"
          LET stats == Put(Put(InitialStats, "images_loaded", Len(images)),
                           "error", "cv2.error")
          IN  /\ Return(TRUE, <<>>, stats)
              /\ Record(stats)
    /\ UNCHANGED <<strategy, image_paths, config, images, read_count, warped_count,
                   canvas_width, canvas, weight_map, offsets, closure,
                   outside>>

(***************************************************************************)
(* ManualStitcher: the canvas, the first image, and one turn of the loop   *)
(* per later image.  The canvas holds 8-bit pixels (0 is black).           *)
(***************************************************************************)
\* canvas_width = w0 * len(images) // 2
ManualCanvasWidth(w0, n) == (w0 * n) \div 2

\* x_offset = canvas_width // 2 - w0 // 2
ManualXOffset(w0, n) == ManualCanvasWidth(w0, n) \div 2 - w0 \div 2

\* canvas[:, a:b] = img[:, from:] for an image of pixels Pix and width iw.
\* The result is << ok, canvas >>.
ManualStore(buffer, cw, a, b, path, from) ==
    LET iw == FileWidth(path)
        first == PyBound(a, cw)
        l == SliceLen(a, b, cw)
        v == iw - PyBound(from, iw)
        slice == first..(first + l - 1)
    IN  IF ~StoresInto(v, l) THEN <<FALSE, buffer>>
        ELSE <<TRUE,
               [c \in DOMAIN buffer \cup slice |->
                   IF c \in slice
                      THEN WarpedPixel(path, PyBound(from, iw) + (IF v = 1 THEN 0 ELSE c - first))
                      ELSE buffer[c]]>>

\* (alpha * images[i][:, x] + (1 - alpha) * canvas[..., blend_x])
\* .astype(np.uint8) for alpha = x / overlap, a Python float: the products
\* and the sum are float64.
AlphaBlend(x, overlap, pixel, under) ==
    LET alpha == F64Ratio(x, overlap)
    IN  F64Trunc(F64Plus(F64Times(alpha, pixel),
                         F64Times(F64Minus(F64(1), alpha), under)))

\* The alpha blend of the first `count` columns of the image into the canvas
\* from column place_x on.
RECURSIVE ManualBlend(_, _, _, _, _, _)
ManualBlend(buffer, cw, place_x, overlap, path, count) ==
    IF count = 0 THEN buffer
    ELSE LET before == ManualBlend(buffer, cw, place_x, overlap, path, count - 1)
             x == count - 1
             blend_x == place_x + x
         IN  IF 0 <= blend_x /\ blend_x < cw
                THEN [c \in DOMAIN before \cup {blend_x} |->
                         IF c = blend_x
                            THEN AlphaBlend(x, overlap, WarpedPixel(path, x),
                                            At(before, blend_x))
                            ELSE before[c]]
                ELSE before

\* What matching image i against image i-1 can give.
PairOutcomes == {"no_descriptors", "few_matches", "no_homography", "homography"}

ManualStart ==
    /\ pc = "warped"
    /\ strategy = "manual"
    /\ LET w0 == FrameW
           n == Len(images)
           cw == ManualCanvasWidth(w0, n)
           x_offset == ManualXOffset(w0, n)
           stored == ManualStore(Zeros, cw, x_offset, x_offset + w0, images[1].path, 0)
       IN  IF ~stored[1]
              THEN /\ Raise("ValueError")
                   /\ UNCHANGED <<canvas_width, canvas, offsets>>
              ELSE /\ canvas_width' = cw
                   /\ canvas' = stored[2]
                   /\ offsets' = <<[path |-> images[1].path, place_x |-> x_offset,
                                    current_offset |-> x_offset + w0, written |-> TRUE,
                                    outcome |-> "first"]>>
                   /\ pc' = "placing"
                   /\ UNCHANGED <<ret, exception, self>>
    /\ UNCHANGED <<strategy, image_paths, config, images, read_count, warped_count,
                   weight_map, closure,
                   outside>>

\* One turn of the loop over images[1:], for the outcome of the matching.
ManualPlace(outcome) ==
    LET e == images[NextIndex]
        w_img == FileWidth(e.path)
        cw == canvas_width
        current_offset == offsets[Len(offsets)].current_offset
        rec(px, wr) == [path |-> e.path, place_x |-> px,
                        current_offset |-> IF wr THEN px + w_img ELSE current_offset,
                        written |-> wr, outcome |-> outcome]
        skip(px) == /\ offsets' = Append(offsets, rec(px, FALSE))
                    /\ UNCHANGED <<canvas, pc, ret, exception, self>>
        put(px, stored) ==
            IF ~stored[1]
               THEN /\ Raise("ValueError")
                    /\ UNCHANGED <<canvas, offsets>>
               ELSE /\ canvas' = stored[2]
                    /\ offsets' = Append(offsets, rec(px, TRUE))
                    /\ UNCHANGED <<pc, ret, exception, self>>
    IN  CASE outcome = "no_descriptors" ->
                \* matcher.knnMatch with descriptors that are None
                /\ Raise("cv2.error")
                /\ UNCHANGED <<canvas, offsets>>
          [] outcome = "few_matches" ->
                LET overlap == (w_img * 3) \div 10
                    place_x == current_offset - overlap
                    blended == ManualBlend(canvas, cw, place_x, overlap, e.path,
                                           Max(0, overlap))
                IN  IF place_x + w_img < cw
                       THEN put(place_x, ManualStore(blended, cw, place_x + overlap,
                                                     place_x + w_img, e.path, overlap))
                       ELSE skip(place_x)
          [] outcome = "no_homography" ->
                LET overlap == (w_img * 3) \div 10
                    place_x == current_offset - overlap
                IN  IF place_x + w_img < cw
                       THEN put(place_x, ManualStore(canvas, cw, place_x,
                                                     place_x + w_img, e.path, 0))
                       ELSE skip(place_x)
          [] OTHER ->
                LET place_x == current_offset - w_img \div 2
                    overlap == current_offset - place_x
                    blended == ManualBlend(canvas, cw, place_x, overlap, e.path,
                                           Min(overlap, w_img))
                IN  IF place_x + w_img < cw /\ place_x >= 0
                       THEN IF overlap > 0
                               THEN IF overlap < w_img
                                       THEN put(place_x,
                                                ManualStore(blended, cw, place_x + overlap,
                                                            place_x + w_img, e.path, overlap))
                                       ELSE put(place_x, <<TRUE, blended>>)
                               ELSE put(place_x, ManualStore(canvas, cw, place_x,
                                                             place_x + w_img, e.path, 0))
                       ELSE skip(place_x)

ManualPair ==
    /\ pc = "placing"
    /\ strategy = "manual"
    /\ NextIndex <= Len(images)
    /\ \E outcome \in PairOutcomes : ManualPlace(outcome)
    /\ UNCHANGED <<strategy, image_paths, config, images, read_count, warped_count,
                   canvas_width, weight_map, closure,
                   outside>>

\* The crop to the bounding rectangle of contours[0], a maximal run of
\* columns brighter than the threshold 1, and the return.
ManualFinish ==
    /\ pc = "placing"
    /\ strategy = "manual"
    /\ NextIndex > Len(images)
    /\ LET bright == {c \in DOMAIN canvas : canvas[c] > 1}
           runs == {r \in {<<a, b>> : a, b \in bright} :
                       /\ r[1] <= r[2]
                       /\ \A c \in r[1]..r[2] : c \in bright
                       /\ (r[1] - 1) \notin bright
                       /\ (r[2] + 1) \notin bright}
           stats == Put(InitialStats, "status", "success")
       IN  /\ pc' = "returned"
           /\ exception' = ""
           /\ Record(stats)
           /\ IF runs = {}
                 THEN ret' = [none |-> FALSE,
                              panorama |-> [i \in 1..canvas_width |-> At(canvas, i - 1)],
                              x0 |-> 0, stats |-> stats]
                 ELSE \E r \in runs :
                        ret' = [none |-> FALSE,
                                panorama |-> [i \in 1..(r[2] - r[1] + 1) |-> canvas[r[1] + i - 1]],
                                x0 |-> r[1], stats |-> stats]
    /\ UNCHANGED <<strategy, image_paths, config, images, read_count, warped_count,
                   canvas_width, canvas, weight_map, offsets, closure,
                   outside>>

Next ==
    \/ ReadImage
    \/ Load
    \/ Project
    \/ Allocate
    \/ Place
    \/ Finish
    \/ AutoStitch
    \/ ManualStart
    \/ ManualPair
    \/ ManualFinish

Spec == Init /\ [][Next]_vars

(***************************************************************************)
(* The sensor-aided strategy on the eight 640 pixel captures, handed over  *)
(* in any rotation of the capture order: blend_width 50, no fine-tuning,   *)
(* loop closure on.                                                        *)
(***************************************************************************)
\* s rotated left by k places.
Rotation(s, k) == [i \in 1..Len(s) |-> s[((i + k - 1) % Len(s)) + 1]]

EightFrameInit ==
    /\ strategy = "sensor_aided"
    /\ image_paths \in {Rotation(WidePaths, k) : k \in 0..(Len(WidePaths) - 1)}
    /\ config \in [blend_width : {50}, use_fine_tuning : {FALSE},
                   debug_mode : BOOLEAN, enable_loop_closure : {TRUE}]
    /\ pc = "start"
    /\ images = <<>>
    /\ read_count = 0
    /\ warped_count = 0
    /\ canvas_width = -1
    /\ canvas = <<>>
    /\ weight_map = <<>>
    /\ offsets = <<>>
    /\ closure = NoClosure
    /\ ret = NoReturn
    /\ exception = ""
    /\ self = NewInstance
    /\ call = 1
    /\ mask = NoMask
    /\ ElsewhereIdle

EightFrameNext ==
    \/ ReadImage
    \/ Load
    \/ Project
    \/ Allocate
    \/ Place
    \/ Finish

EightFrameSpec == EightFrameInit /\ [][EightFrameNext]_vars


(***************************************************************************)
(* The properties.                                                         *)
(***************************************************************************)
AngleBased == {"simple_angle", "sensor_aided"}

\* C1: for each of the four strategies, a failure inside stitch comes back
\* as a failure result (no mosaic plus a report); no exception ever leaves
\* stitch.
C1_NoExceptionLeavesStitch ==
    /\ pc # "raised"
    /\ exception = ""

\* C11: for the eight 640 pixel frames with bearings 0, 45, ..., 315, hfov
\* 54, fine-tuning off, loop closure on and blend_width 50, the sensor-aided
\* strategy returns a mosaic whose width is round((640 / 54) * 360) = 4267
\* pixels, within 1 percent.  (Images are one row high here: the height is
\* not part of the state.)
C11_EightFrameWidth ==
    (pc = "returned" /\ strategy = "sensor_aided"
        /\ Range(image_paths) = Range(WidePaths)) =>
        /\ ~ret.none
        /\ Abs(Len(ret.panorama) - (640 * 360 + hfov_deg \div 2) \div hfov_deg) <= 43

\* What in a stats dict marks success: a status that says so, or, for a dict
\* that carries no status at all, the absence of an error.
MarksSuccess(stats) ==
    /\ "error" \notin DOMAIN stats
    /\ "status" \in DOMAIN stats => stats.status \in {"success", "Success"}

\* What in a stats dict marks failure: an error, or a status that names a
\* failure (not success, and not the initial "processing" or "unknown").
MarksFailure(stats) ==
    \/ "error" \in DOMAIN stats
    \/ /\ "status" \in DOMAIN stats
       /\ stats.status \notin {"success", "Success", "processing", "unknown"}

\* C2: every stitch call that returns, returns either a mosaic together with
\* statistics that mark success, or no mosaic together with statistics that
\* mark failure; never a mosaic with a failure marker, nor no mosaic without
\* one.
C2_OneOutcome ==
    pc = "returned" =>
        IF ret.none
           THEN MarksFailure(ret.stats) /\ ~MarksSuccess(ret.stats)
           ELSE MarksSuccess(ret.stats) /\ ~MarksFailure(ret.stats)

\* The report names the cause: fewer than 2 usable images.
IdentifiesInsufficientFrames(stats) ==
    /\ "error" \in DOMAIN stats
    /\ stats.error = "Need at least 2 images"

\* C3: for every strategy, when fewer than 2 of the supplied files decode,
\* stitch returns no mosaic and a report that identifies the failure as
\* insufficient frames, before any projection, canvas allocation or
\* placement.
C3_InsufficientFramesReported ==
    (pc # "start" /\ Len(KeepDecodable(image_paths)) < 2) =>
        /\ pc = "returned"
        /\ ret.none
        /\ IdentifiesInsufficientFrames(ret.stats)
        /\ warped_count = 0
        /\ canvas_width = -1
        /\ offsets = <<>>

\* Some file that decodes carries no angle in its name, as the strategy's
\* own _extract_angle reads names.
SomeFrameWithoutBearing ==
    \E i \in DOMAIN image_paths :
        /\ Decodes(image_paths[i])
        /\ SearchAngle(image_paths[i],
                       IF strategy = "sensor_aided" THEN {95, 45} ELSE {95}) = NoAngle

\* C4: an angle-based strategy given a frame without a bearing aborts at
\* once with a failure report and no mosaic: once loading is over the call
\* has returned the failure; the frame is neither dropped nor given a
\* default bearing with the call going on.
C4_MissingBearingAborts ==
    (strategy \in AngleBased /\ SomeFrameWithoutBearing /\ pc # "start") =>
        /\ pc = "returned"
        /\ ret.none
        /\ MarksFailure(ret.stats)
        /\ warped_count = 0

\* C5: in both angle-based strategies the bearings of the frames placed are
\* non-decreasing, and the angular increment taken from the first two frames
\* is never negative.
C5_AscendingBearings ==
    strategy \in AngleBased =>
        /\ \A i, j \in DOMAIN offsets :
              i < j => offsets[i].angle <= offsets[j].angle
        /\ pc \in {"warped", "placing"} => angle_increment >= 0

\* C6: in the 360-degree canvas of an angle-based strategy, every column x
\* of a frame placed at offset o is accumulated at canvas column
\* (o + x) mod canvas_width; no column is dropped.
C6_ColumnsWrap ==
    (strategy \in AngleBased /\ canvas_width > 0) =>
        \A i \in DOMAIN offsets :
            \A x \in 0..(FrameW - 1) :
                /\ x \in DOMAIN offsets[i].written
                /\ offsets[i].written[x] = (offsets[i].actual_x + x) % canvas_width

\* The turns of the placement loop that wrote canvas column c.
Covering(c) ==
    {i \in DOMAIN offsets :
        \E x \in DOMAIN offsets[i].written : offsets[i].written[x] = c}

\* The pixel that the frame of turn i put on canvas column c.
PixelFrom(i, c) ==
    LET x == CHOOSE y \in DOMAIN offsets[i].written : offsets[i].written[y] = c
    IN  WarpedPixel(offsets[i].path, x)

\* C7: with blend_width = 0, each pixel of the returned mosaic that one or
\* more frames cover equals the pixel of the last-placed frame covering it.
C7_HardReplace ==
    (strategy \in AngleBased /\ pc = "returned" /\ ~ret.none
        /\ config.blend_width = 0) =>
        \A k \in DOMAIN ret.panorama :
            LET c == ret.x0 + k - 1
            IN  Covering(c) # {} =>
                    LET last == CHOOSE i \in Covering(c) : \A j \in Covering(c) : j <= i
                    IN  ret.panorama[k] = PixelFrom(last, c)

\* The distance between two columns around a canvas of width cw.
CircularDistance(a, b, cw) == Min((a - b) % cw, (b - a) % cw)

\* C8: when loop closure is enabled, more than 2 frames were placed and the
\* closure error is over 10 px, the offsets are corrected: the end of the
\* last frame and the start of the first frame agree modulo the canvas
\* width, within 1 px.
C8_LoopClosed ==
    (pc = "returned" /\ closure.checked /\ closure.over) =>
        CircularDistance(offsets[Len(offsets)].actual_x + FrameW,
                         offsets[1].actual_x, canvas_width) <= 1

\* C9: with fine-tuning, for every frame after the first and every match
\* outcome, the magnitude of the adjustment (the frame's final offset from
\* the previous frame minus the expected one, which is actual_x -
\* expected_x) is at most 0.2 times the magnitude of the expected offset,
\* also when the expected offset is zero or negative.
C9_AdjustmentClamped ==
    \A i \in DOMAIN offsets :
        (strategy = "sensor_aided" /\ offsets[i].tuned) =>
            5 * Abs(offsets[i].actual_x - offsets[i].expected_x)
                <= Abs(offsets[i].expected_offset)

\* A frame was fine-tuned against a negative expected offset of magnitude 5
\* or more, and the clamp moved it off its expected position.
C9_Witness ==
    /\ strategy = "sensor_aided"
    /\ \E i \in DOMAIN offsets :
          /\ offsets[i].tuned
          /\ offsets[i].expected_offset < -4
          /\ offsets[i].actual_x # offsets[i].expected_x

\* The frames the manual pipeline loaded all have one size.
EqualSize == \A i, j \in DOMAIN images : FileWidth(images[i].path) = FileWidth(images[j].path)

\* C10: in the manual pipeline, with 2 or more frames of equal size, every
\* frame passes the canvas bounds check and is written, whatever the outcome
\* of the matching; a result reported as success holds every frame.
C10_EveryFrameWritten ==
    (strategy = "manual" /\ EqualSize) =>
        /\ \A i \in DOMAIN offsets : offsets[i].written
        /\ (pc = "returned" /\ ~ret.none) =>
              /\ Len(offsets) = Len(images)
              /\ \A i \in DOMAIN offsets : offsets[i].written

\* round(pixels_per_degree * 360) for the pixels per degree the running
\* strategy places its frames with: w / hfov in SimpleAngleStitcher,
\* focal_length * tan(radians(angle_increment)) in SensorAidedStitcher.
RoundedSpanWidth ==
    IF strategy = "simple_angle"
       THEN F64Nearest(F64Mul(SimplePixelsPerDegree(FrameW), F64(360)))
       ELSE LET p == PixelsPerDegree(FrameW, angle_increment)
                r == F64Nearest(F64Mul(p, F64(360)))
            IN  IF p.neg THEN 0 - r ELSE r

\* C12: the canvas width an angle-based strategy allocates is
\* round(pixels_per_degree * total_angle) for the pixels per degree the same
\* strategy places frames with (total_angle is 360 in both strategies; the
\* code has no other span).
C12_CanvasWidthRounded ==
    (strategy \in AngleBased /\ pc = "placing") => canvas_width = RoundedSpanWidth

(***************************************************************************)
(* The feather mask of one frame, built turn by turn: np.ones((h, w)),     *)
(* the loop over the left edge, then the loop over the right edge.  The     *)
(* inputs are the frame width and the constructor's blend_width.            *)
(***************************************************************************)
\* The frame widths and the blend widths a mask is built for here.
MaxMaskWidth == 5
MaxBlendWidth == 7

\* np.ones((h, w)): every column holds 1.
Ones(w, bw) == [c \in 0..(w - 1) |-> F32(1)]

MaskInit ==
    /\ strategy \in {"simple_angle", "sensor_aided"}
    /\ config \in {[blend_width |-> b] : b \in 0..MaxBlendWidth}
    /\ mask \in {[w |-> w, values |-> Ones(w, config.blend_width), x |-> 0,
                  loop |-> "left", left |-> {}, right |-> {}, error |-> ""] :
                    w \in 1..MaxMaskWidth}
    /\ image_paths = <<>>
    /\ pc = "placing"
    /\ images = <<>>
    /\ read_count = 0
    /\ warped_count = 0
    /\ canvas_width = -1
    /\ canvas = <<>>
    /\ weight_map = <<>>
    /\ offsets = <<>>
    /\ closure = NoClosure
    /\ ret = NoReturn
    /\ exception = ""
    /\ self = NewInstance
    /\ call = 1
    /\ ElsewhereIdle

\* One turn of the loop over the left edge: range(self.blend_width) in
\* SensorAidedStitcher, range(min(self.blend_width, w)) in
\* SimpleAngleStitcher; weights[:, x] = x / blend_width.
FeatherLeft ==
    /\ mask.loop = "left"
    /\ LET w == mask.w
           bw == config.blend_width
           turns == IF strategy = "sensor_aided" THEN bw ELSE Min(bw, w)
           x == mask.x
       IN  IF x >= turns
              THEN mask' = [mask EXCEPT !.loop = "right",
                               !.x = IF strategy = "sensor_aided" THEN 0
                                     ELSE Max(0, w - bw)]
              ELSE IF x >= w
                 THEN \* index x is out of bounds for axis 1 with size w
                      mask' = [mask EXCEPT !.loop = "raised", !.error = "IndexError"]
                 ELSE mask' = [mask EXCEPT !.values[x] = F32Ratio(x, bw), !.x = x + 1,
                                  !.left = mask.left \cup {x}]
    /\ UNCHANGED <<strategy, image_paths, config, pc, images, read_count, warped_count,
                   canvas_width, canvas, weight_map, offsets, closure, ret,
                   exception, self, call, elsewhere>>

\* One turn of the loop over the right edge: for x in range(blend_width),
\* weights[:, w - blend_width + x] = 1 - x / blend_width in
\* SensorAidedStitcher; for x in range(max(0, w - blend_width), w),
\* mask[:, x] = (w - x) / blend_width in SimpleAngleStitcher.
FeatherRight ==
    /\ mask.loop = "right"
    /\ LET w == mask.w
           bw == config.blend_width
           x == mask.x
           last == IF strategy = "sensor_aided" THEN bw ELSE w
           c == IF strategy = "sensor_aided" THEN w - bw + x ELSE x
           v == IF strategy = "sensor_aided" THEN bw - x ELSE w - x
       IN  IF x >= last
              THEN mask' = [mask EXCEPT !.loop = "done"]
              ELSE mask' = [mask EXCEPT !.values[c] = F32Ratio(v, bw), !.x = x + 1,
                               !.right = mask.right \cup {c}]
    /\ UNCHANGED <<strategy, image_paths, config, pc, images, read_count, warped_count,
                   canvas_width, canvas, weight_map, offsets, closure, ret,
                   exception, self, call, elsewhere>>

MaskNext ==
    \/ FeatherLeft
    \/ FeatherRight

MaskSpec == MaskInit /\ [][MaskNext]_vars

\* The mask the loops build is the mask the placement of a frame uses.
MaskAsPlaced ==
    mask.loop = "done" =>
        \A c \in DOMAIN mask.values :
            mask.values[c] =
                IF strategy = "sensor_aided"
                   THEN SensorWeight(c, mask.w, config.blend_width)
                   ELSE SimpleMask(c, mask.w, config.blend_width)

\* C13: for every frame width w >= 1 and every blend_width >= 0, also above
\* w / 2 and above w, building the feather mask succeeds, every value is in
\* [0, 1], and no ramp value is written outside the frame's columns or onto
\* a column the ramp of the opposite edge has written.
C13_FeatherMaskSound ==
    mask.loop # "" =>
        /\ mask.error = ""
        /\ \A c \in DOMAIN mask.values :
              ~F32Less(mask.values[c], F32Zero) /\ ~F32Less(F32(1), mask.values[c])
        /\ (mask.left \cup mask.right) \subseteq 0..(mask.w - 1)
        /\ mask.left \cap mask.right = {}

\* The canvas column that holds pixel i of the returned panorama.
ColumnOf(i) == ret.x0 + i - 1

\* C14: after any placements of an angle-based strategy every entry of the
\* weight buffer is >= 0; the returned panorama holds canvas / weight where
\* the weight is > 0 and black (0) where the weight is 0.
C14_WeightsAndNormalisation ==
    strategy \in AngleBased =>
        /\ \A c \in DOMAIN weight_map : ~F32Less(weight_map[c], F32Zero)
        /\ (pc = "returned" /\ ~ret.none) =>
              \A i \in DOMAIN ret.panorama :
                 IF F32Less(F32Zero, At32(weight_map, ColumnOf(i)))
                    THEN ret.panorama[i] =
                            F32Trunc(F32Div(canvas[ColumnOf(i)],
                                            weight_map[ColumnOf(i)]))
                    ELSE ret.panorama[i] = 0

\* An angle-based strategy returned a panorama with a column of weight 0 that
\* a frame was written to, a column no frame was written to, and a column
\* where two frames overlap.
C14_Witness ==
    /\ strategy \in AngleBased
    /\ pc = "returned"
    /\ ~ret.none
    /\ \E i \in DOMAIN ret.panorama :
          ColumnOf(i) \in DOMAIN weight_map /\ weight_map[ColumnOf(i)] = F32Zero
    /\ \E i \in DOMAIN ret.panorama : ColumnOf(i) \notin DOMAIN weight_map
    /\ \E i \in DOMAIN ret.panorama :
          F32Less(F32(1), At32(weight_map, ColumnOf(i)))

\* The outcomes of a pair for which the manual pipeline takes its geometric
\* fallback: fewer than 10 matches, or no homography.
FallbackOutcomes == {"few_matches", "no_homography"}

\* C15: in the manual pipeline a pair with too few matches (a frame without
\* descriptors included) or without a homography has its frame placed by the
\* geometric fallback, and the stitch goes on to return a mosaic: no failure
\* of the matching of one pair makes the whole stitch fail.
C15_BadPairFallsBack ==
    strategy = "manual" =>
        /\ \A i \in DOMAIN offsets :
              offsets[i].outcome \in FallbackOutcomes => offsets[i].written
        /\ (pc = "returned" /\ offsets # <<>> /\ ret.none) =>
              ret.stats.error # "cv2.error"

(***************************************************************************)
(* ManualStitcher and OpenCVAutoStitcher constructed with any kind of      *)
(* detector, matcher, projection and mode, the kinds the docstrings name   *)
(* and kinds they do not name.                                             *)
(***************************************************************************)
DetectorKinds == {"orb", "akaze", "sift"}
MatcherKinds == {"bf", "flann", "knn"}
ProjectionKinds == {"cylindrical", "spherical", "fisheye"}
StitchModes == {"panorama", "scans", "video"}

\* _detect_and_describe: cv2.ORB_create for "orb", else cv2.AKAZE_create.
DetectorUsed(kind) == IF kind = "orb" THEN "ORB" ELSE "AKAZE"

\* _match_features: cv2.BFMatcher for "bf", else cv2.FlannBasedMatcher.
MatcherUsed(kind) == IF kind = "bf" THEN "BFMatcher" ELSE "FlannBasedMatcher"

\* OpenCVAutoStitcher.stitch: Stitcher_PANORAMA for "panorama", else Stitcher_SCANS.
StitcherModeUsed(kind) == IF kind = "panorama" THEN "PANORAMA" ELSE "SCANS"

\* The lists of files handed to stitch here.
KindPathLists == {<<P_angle_000>>, <<P_angle_000, P_angle_001>>}

KindInit ==
    /\ strategy \in {"manual", "opencv_auto"}
    /\ image_paths \in KindPathLists
    /\ config \in IF strategy = "manual"
                     THEN [feature_detector : DetectorKinds,
                           matcher_type : MatcherKinds,
                           projection : ProjectionKinds]
                     ELSE [mode : StitchModes]
    /\ pc = "start"
    /\ images = <<>>
    /\ read_count = 0
    /\ warped_count = 0
    /\ canvas_width = -1
    /\ canvas = <<>>
    /\ weight_map = <<>>
    /\ offsets = <<>>
    /\ closure = NoClosure
    /\ ret = NoReturn
    /\ exception = ""
    /\ self = NewInstance
    /\ call = 1
    /\ mask = NoMask
    /\ ElsewhereIdle

KindNext ==
    \/ ReadImage
    \/ Load
    \/ Project
    \/ AutoStitch
    \/ ManualStart
    \/ ManualPair
    \/ ManualFinish

KindSpec == KindInit /\ [][KindNext]_vars

\* The kinds the docstrings of the two constructors name.
SupportedConfig ==
    IF strategy = "manual"
       THEN /\ config.feature_detector \in {"orb", "akaze"}
            /\ config.matcher_type \in {"bf", "flann"}
            /\ config.projection \in {"cylindrical", "spherical"}
       ELSE config.mode \in {"panorama", "scans"}

\* A stats dict that reports an unsupported configuration.
ReportsUnsupported(stats) ==
    /\ "error" \in DOMAIN stats
    /\ stats.error = "unsupported configuration"

\* C16: a stitch call on a strategy constructed with an unknown detector,
\* matcher, projection or mode returns no mosaic and a report of an
\* unsupported configuration; the unknown kind is not run as a supported one.
C16_UnknownKindRejected ==
    /\ (pc = "returned" /\ ~SupportedConfig) =>
            /\ ret.none
            /\ ReportsUnsupported(ret.stats)
    /\ (strategy = "manual" /\ pc = "placing") =>
            /\ config.feature_detector \notin {"orb", "akaze"} =>
                    DetectorUsed(config.feature_detector) \notin {"ORB", "AKAZE"}
            /\ config.matcher_type \notin {"bf", "flann"} =>
                    MatcherUsed(config.matcher_type)
                        \notin {"BFMatcher", "FlannBasedMatcher"}
    /\ (strategy = "opencv_auto" /\ pc = "returned" /\ ~ret.none
            /\ config.mode \notin {"panorama", "scans"}) =>
            StitcherModeUsed(config.mode) \notin {"PANORAMA", "SCANS"}

(***************************************************************************)
(* The job server's algorithm ids.                                         *)
(***************************************************************************)
\* The ids list_algorithms advertises (the first is the default of the
\* upload endpoint), and sensor_aided, which process_stitching_job dispatches.
AdvertisedAlgorithms == {"simple_angle", "opencv_auto", "manual"}
JobAlgorithms == AdvertisedAlgorithms \cup {"sensor_aided"}

\* The classifications of a failed automatic stitch.
FailureClassifications ==
    {"Need more images", "Homography estimation failed",
     "Camera parameters adjustment failed"} \cup
    {UnknownError(status) : status \in StitcherStatuses}

\* C18: when the library's stitch returned a status, the automatic strategy
\* returns a mosaic if and only if that status is OK; for every other status
\* it returns no mosaic and its stats carry exactly one classification: need
\* more images, homography estimation failed, camera parameters adjustment
\* failed, or unknown error for an unrecognized status code.
C18_MosaicIffStatusOk ==
    (strategy = "opencv_auto" /\ pc = "returned"
        /\ "images_loaded" \in DOMAIN ret.stats /\ "error" \notin DOMAIN ret.stats) =>
        \E status \in StitcherStatuses :
            /\ ret.stats.status = StatusMessage(status)
            /\ ~ret.none <=> status = Stitcher_OK
            /\ status # Stitcher_OK => ret.stats.status \in FailureClassifications
            /\ status = Stitcher_OK => ret.stats.status \notin FailureClassifications

\* The library returned an unrecognized status code and the call came back
\* without a mosaic, classified as an unknown error.
C18_Witness ==
    /\ strategy = "opencv_auto"
    /\ pc = "returned"
    /\ ret.none
    /\ "error" \notin DOMAIN ret.stats
    /\ "images_loaded" \in DOMAIN ret.stats
    /\ ret.stats.status = UnknownError(4)

\* C19: with fine-tuning, a frame whose matching gave fewer than 4 key
\* points in an overlap window or fewer than 4 matches that pass the ratio
\* test is placed at exactly its expected offset from the previous frame,
\* which is its expected position: the adjustment is 0.
C19_NoMatchesNoAdjustment ==
    strategy = "sensor_aided" =>
        \A i \in DOMAIN offsets :
            (offsets[i].tuned /\ ~offsets[i].matched) =>
                /\ i > 1
                /\ offsets[i].actual_x - offsets[i - 1].actual_x
                      = offsets[i].expected_offset
                /\ offsets[i].actual_x = offsets[i].expected_x

\* A frame without usable matches was placed after a frame that the
\* fine-tuning had moved off its expected position.
C19_Witness ==
    /\ strategy = "sensor_aided"
    /\ \E i \in DOMAIN offsets :
          /\ i > 1
          /\ offsets[i].tuned
          /\ ~offsets[i].matched
          /\ offsets[i - 1].actual_x # offsets[i - 1].expected_x
          /\ offsets[i].expected_offset # 0

(***************************************************************************)
(* Several stitch calls, one after the other, on one strategy instance:    *)
(* the locals of a call start afresh, the instance's attributes stay.      *)
(***************************************************************************)
\* How many calls an instance gets here, and the lists it is called with.
MaxCalls == 2
RepeatLists == {<<>>, <<P_angle_000>>, <<P_angle_000, P_angle_001>>}

RepeatInit ==
    /\ strategy \in Strategies
    /\ image_paths \in RepeatLists
    /\ config \in Configs(strategy)
    /\ pc = "start"
    /\ images = <<>>
    /\ read_count = 0
    /\ warped_count = 0
    /\ canvas_width = -1
    /\ canvas = <<>>
    /\ weight_map = <<>>
    /\ offsets = <<>>
    /\ closure = NoClosure
    /\ ret = NoReturn
    /\ exception = ""
    /\ self = NewInstance
    /\ call = 1
    /\ mask = NoMask
    /\ ElsewhereIdle

\* The next stitch(image_paths) on the instance, after the previous call
\* returned or raised.
CallAgain ==
    /\ pc \in {"returned", "raised"}
    /\ call < MaxCalls
    /\ call' = call + 1
    /\ image_paths' \in RepeatLists
    /\ pc' = "start"
    /\ images' = <<>>
    /\ read_count' = 0
    /\ warped_count' = 0
    /\ canvas_width' = -1
    /\ canvas' = <<>>
    /\ weight_map' = <<>>
    /\ offsets' = <<>>
    /\ closure' = NoClosure
    /\ ret' = NoReturn
    /\ exception' = ""
    /\ UNCHANGED <<strategy, config, self, mask, elsewhere>>

RepeatNext ==
    \/ ReadImage
    \/ Load
    \/ Project
    \/ Allocate
    \/ Place
    \/ Finish
    \/ AutoStitch
    \/ ManualStart
    \/ ManualPair
    \/ ManualFinish
    \/ CallAgain

RepeatSpec == RepeatInit /\ [][RepeatNext]_vars

\* C20: when a stitch call on an instance has returned, the instance's stats
\* and processing_time (what get_stats_summary reports) are those of that
\* call, whatever the calls before it did and also when it returned early
\* for fewer than 2 valid frames.
C20_AttributesOfLastCall ==
    pc = "returned" =>
        /\ self.stats = ret.stats
        /\ self.processing_time = call

(***************************************************************************)
(* One call of SensorAidedStitcher._find_constrained_offset, followed from *)
(* its arguments through the ratio-test loop to the value it returns.  A   *)
(* match that passes the ratio test is the pair of the x coordinates of    *)
(* its two key points, each inside its own overlap window.                 *)
(***************************************************************************)
\* The state of a program in which no stitch call is under way.
stitch_vars == <<strategy, image_paths, config, pc, images, read_count, warped_count,
                 canvas_width, canvas, weight_map, offsets, closure, ret,
                 exception, self, call, mask>>

StitcherIdle ==
    /\ strategy = ""
    /\ image_paths = <<>>
    /\ config = EmptyStats
    /\ pc = "idle"
    /\ images = <<>>
    /\ read_count = 0
    /\ warped_count = 0
    /\ canvas_width = -1
    /\ canvas = <<>>
    /\ weight_map = <<>>
    /\ offsets = <<>>
    /\ closure = NoClosure
    /\ ret = NoReturn
    /\ exception = ""
    /\ self = NewInstance
    /\ call = 1
    /\ mask = NoMask

\* The width of the two warped frames, and the most matches that pass the
\* ratio test.
TuneWidth == 10
MaxMatches == 5

\* if len(good_matches) < 4: return expected_offset
MinMatches == 4

\* The k-th smallest entry of a non-empty sequence of numbers (k from 1).
KthSmallest(h, k) ==
    CHOOSE v \in {h[i] : i \in DOMAIN h} :
        /\ Cardinality({i \in DOMAIN h : h[i] < v}) < k
        /\ k <= Cardinality({i \in DOMAIN h : h[i] <= v})

\* Twice np.median(h): the middle entry of the sorted values, or the mean of
\* the two middle entries when their number is even.
MedianTwice(h) ==
    LET n == Len(h)
    IN  IF n % 2 = 1 THEN 2 * KthSmallest(h, (n + 1) \div 2)
        ELSE KthSmallest(h, n \div 2) + KthSmallest(h, (n \div 2) + 1)

\* pts1[:, 0] += (w - search_width): the key point of the previous frame
\* in full-frame coordinates.
FullFrameX(w, x1) == x1 + (w - SearchWidth(w))

\* h_displacements = pts2[:, 0] - pts1[:, 0] + expected_offset
HDisplacements(w, expected_offset, matches) ==
    [i \in DOMAIN matches |->
        (matches[i].x2 - FullFrameX(w, matches[i].x1)) + expected_offset]

\* What the call returns for the matches that passed the ratio test:
\* refined_offset = int(np.median(h_displacements)), then the clip.
ConstrainedOffsetOf(w, expected_offset, matches) ==
    IF Len(matches) < MinMatches THEN expected_offset
    ELSE LET h == HDisplacements(w, expected_offset, matches)
             refined_offset == TruncDiv(MedianTwice(h), 2)
         IN  FindConstrainedOffset(expected_offset,
                 [found |-> TRUE, d |-> refined_offset - expected_offset])

\* Matches are listed by key point; the median does not see their order.
MatchLeq(a, b) == a.x1 < b.x1 \/ (a.x1 = b.x1 /\ a.x2 <= b.x2)

TuneInit ==
    /\ StitcherIdle
    /\ tuning \in {[w |-> TuneWidth, expected_offset |-> e, matches |-> <<>>,
                    refined |-> 0, loop |-> "matching"] : e \in 0..TuneWidth}
    /\ server = NoServer
    /\ client = NoClient
    /\ motor = NewMotor
    /\ scan = NoScan

\* One turn of the loop over the matches in which the pair passes the ratio
\* test: good_matches.append(m).
GoodMatch ==
    /\ tuning.loop = "matching"
    /\ Len(tuning.matches) < MaxMatches
    /\ \E x1 \in 0..(SearchWidth(tuning.w) - 1),
          x2 \in 0..(SearchWidth(tuning.w) - 1) :
          LET m == [x1 |-> x1, x2 |-> x2]
          IN  /\ tuning.matches # <<>> =>
                     MatchLeq(tuning.matches[Len(tuning.matches)], m)
              /\ tuning' = [tuning EXCEPT !.matches = Append(@, m)]
    /\ UNCHANGED <<stitch_vars, server, client, motor, scan>>

\* The loop has ended: the early return for fewer than 4 good matches, or
\* the clipped median.
ReturnOffset ==
    /\ tuning.loop = "matching"
    /\ tuning' = [tuning EXCEPT
           !.refined = ConstrainedOffsetOf(tuning.w, tuning.expected_offset,
                                           tuning.matches),
           !.loop = "returned"]
    /\ UNCHANGED <<stitch_vars, server, client, motor, scan>>

TuneNext ==
    \/ GoodMatch
    \/ ReturnOffset

TuneSpec == TuneInit /\ [][TuneNext]_vars

\* The offset of the current frame against the previous one that a match
\* speaks for: where its key point lies in the previous frame (full-frame
\* coordinates) minus where it lies in the current frame.
MatchOffsets(t) ==
    [i \in DOMAIN t.matches |->
        FullFrameX(t.w, t.matches[i].x1) - t.matches[i].x2]

\* C21: with at least 4 accepted matches the refined offset is the median
\* of the matches' horizontal displacements between the previous frame
\* (full-frame coordinates) and the current frame, clamped to the expected
\* offset +/- 20%; in particular, when every accepted match agrees with the
\* expected offset, the expected offset is returned (adjustment 0).
C21_MedianDisplacement ==
    (tuning.loop = "returned" /\ Len(tuning.matches) >= MinMatches) =>
        LET e == tuning.expected_offset
            max_adjustment == TruncDiv(e, 5)
            agreed == \A i \in DOMAIN tuning.matches :
                          MatchOffsets(tuning)[i] = e
        IN  /\ tuning.refined =
                 NpClip(TruncDiv(MedianTwice(MatchOffsets(tuning)), 2),
                        e - max_adjustment, e + max_adjustment)
            /\ agreed => tuning.refined = e

(***************************************************************************)
(* The job server's bookkeeping for one job: the jobs dict, the upload     *)
(* directory and the result file, the background task                      *)
(* process_stitching_job and a delete_job request.  The task runs in the   *)
(* thread pool while the request handlers run on the event loop, so the    *)
(* statements of the task interleave with those of delete_job.  The task's *)
(* position is the source line of the statement it executes next.  The     *)
(* call of stitcher.stitch at line 104 is the stitch call of the strategy  *)
(* the task constructed, on the files of the upload directory; what        *)
(* save_result does is its outcome only: a written file or False.          *)
(***************************************************************************)
\* Python's None in a job entry.
None == "None"

\* "angle_000.png": an upload that job_dir.glob("*.jpg") does not list.
P_angle_000_png == AnglePrefix \o <<95, 48, 48, 48, 46, 112, 110, 103>>

\* The files of a request, in the order of the form: one or more files with
\* names of their own (the order of such a request makes no difference to
\* what it leaves on disk, so each set of names is listed once), and the
\* requests that send a name twice.
RepeatedUploads ==
    {<<P_angle_000, P_angle_000>>, <<P_angle_000, P_angle_001, P_angle_000>>}

JobUploads ==
    {SortedPaths(S) :
        S \in (SUBSET {P_angle_000, P_angle_001, P_angle_003, P_angle_004,
                       P_angle_000_png}) \ {{}}}
    \cup RepeatedUploads

\* job_dir.glob("*.jpg")
IsJpg(path) ==
    /\ Len(path) >= Len(JpgSuffix)
    /\ SubSeq(path, Len(path) - Len(JpgSuffix) + 1, Len(path)) = JpgSuffix

\* The entry upload_images creates.
NewEntry(algorithm, files) ==
    [job_id |-> JobId, status |-> "queued", progress |-> "0",
     message |-> "Job queued for processing", result_url |-> None,
     created_at |-> "now", completed_at |-> None, stats |-> None,
     algorithm |-> algorithm, image_count |-> Len(files)]

JobInit ==
    /\ StitcherIdle
    /\ server = NoServer
    /\ tuning = NoTuning
    /\ client = NoClient
    /\ motor = NewMotor
    /\ scan = NoScan

\* upload_images: the files are saved to the job's directory (a name sent
\* twice is written twice to the one file), the entry is
\* created and process_stitching_job is added as a background task.
UploadImages ==
    /\ server.task.state = "none"
    /\ \E files \in JobUploads, algorithm \in JobAlgorithms,
          blend_width \in BlendWidths :
          server' = [server EXCEPT
              !.uploads = [j \in {JobId} |-> Range(files)],
              !.jobs = [j \in {JobId} |-> NewEntry(algorithm, files)],
              !.task = [NoTask EXCEPT !.state = "running", !.pc = 71,
                                      !.algorithm = algorithm,
                                      !.blend_width = blend_width]]
    /\ UNCHANGED <<stitch_vars, tuning, client, motor, scan>>

\* An exception raised by the statement at line pc with message e: inside
\* the try block it is caught by "except Exception as e" and the handler
\* starts; raised by the handler itself it leaves the task.
Uncaught(task, e) == [task EXCEPT !.state = "raised", !.error = e]

Caught(task, e) ==
    IF task.pc < 128 THEN [task EXCEPT !.pc = 129, !.error = e]
    ELSE [task EXCEPT !.state = "raised", !.error = e]

\* The statements jobs[job_id][key] = value of process_stitching_job: the
\* key they write by source line.
WrittenKey(line) ==
    CASE line \in {71, 117, 129} -> "status"
      [] line \in {72, 82, 99, 110, 118} -> "progress"
      [] line \in {73, 83, 100, 111, 119, 130} -> "message"
      [] line = 120 -> "result_url"
      [] line \in {121, 131} -> "completed_at"
      [] line = 122 -> "stats"

WriteLines == {71, 72, 73, 82, 83, 99, 100, 110, 111, 117, 118, 119, 120,
               121, 122, 129, 130, 131}

\* The value written at a line.
WrittenValue(line, task) ==
    CASE line = 71 -> "processing"
      [] line = 72 -> "10"
      [] line = 73 -> "Loading images..."
      [] line = 82 -> "20"
      [] line = 83 -> "Found " \o ToString(Cardinality(task.image_files))
                        \o " images, initializing stitcher..."
      [] line = 99 -> "30"
      [] line = 100 -> "Stitching with " \o task.algorithm \o "..."
      [] line = 110 -> "80"
      [] line = 111 -> "Saving result..."
      [] line = 117 -> "completed"
      [] line = 118 -> "100"
      [] line = 119 -> "Stitching completed successfully"
      [] line = 120 -> "/api/v1/download/" \o JobId
      [] line = 121 -> "now"
      [] line = 122 -> "stats"
      [] line = 129 -> "failed"
      [] line = 130 -> task.error
      [] line = 131 -> "now"

\* The statement that follows a line when no exception is raised; the task
\* returns after lines 122 and 131.
LineAfter(line) ==
    CASE line = 71 -> 72
      [] line = 72 -> 73
      [] line = 73 -> 77
      [] line = 77 -> 82
      [] line = 82 -> 83
      [] line = 83 -> 86
      [] line = 86 -> 99
      [] line = 99 -> 100
      [] line = 100 -> 104
      [] line = 104 -> 110
      [] line = 110 -> 111
      [] line = 111 -> 115
      [] line = 115 -> 117
      [] line = 117 -> 118
      [] line = 118 -> 119
      [] line = 119 -> 120
      [] line = 120 -> 121
      [] line = 121 -> 122
      [] line = 129 -> 130
      [] line = 130 -> 131
      [] OTHER -> 0

Advance(task) ==
    IF LineAfter(task.pc) = 0 THEN [task EXCEPT !.state = "returned"]
    ELSE [task EXCEPT !.pc = LineAfter(task.pc)]

\* One statement jobs[job_id][key] = value: KeyError when the entry is gone.
JobWrite ==
    /\ server.task.state = "running"
    /\ server.task.pc \in WriteLines
    /\ LET task == server.task
       IN  IF JobId \in DOMAIN server.jobs
              THEN server' = [server EXCEPT
                       !.jobs[JobId][WrittenKey(task.pc)] =
                            WrittenValue(task.pc, task),
                       !.task = Advance(task)]
              ELSE server' = [server EXCEPT !.task = Caught(task, "'" \o JobId \o "'")]
    /\ UNCHANGED <<stitch_vars, tuning, client, motor, scan>>

\* Path(__file__).parent: the directory of stitching_server.py, an absolute
\* path however the server is started; here that of a checkout at /Pan360.
ServerDir == "/Pan360/server"

\* str(job_dir): UPLOAD_DIR / job_id.
JobDir == ServerDir \o "/uploads/" \o JobId

\* Lines 76-80, the start of job_dir.glob("*.jpg"): the selector asks
\* is_dir(job_dir) first and yields nothing for a directory that is gone, so
\* that image_files is empty and line 80 raises ValueError.
GlobIsDir ==
    /\ server.task.state = "running"
    /\ server.task.pc = 77
    /\ ~server.task.scanning
    /\ LET task == server.task
       IN  server' = [server EXCEPT !.task =
               IF JobId \in DOMAIN server.uploads
                  THEN [task EXCEPT !.scanning = TRUE]
                  ELSE Caught(task, "No images found in upload")]
    /\ UNCHANGED <<stitch_vars, tuning, client, motor, scan>>

\* Lines 76-80, the rest of sorted(job_dir.glob("*.jpg")): os.scandir lists
\* the files the directory holds at that moment, and raises
\* FileNotFoundError when the directory has been removed since is_dir; no
\* file listed raises ValueError at line 80.
GlobImages ==
    /\ server.task.state = "running"
    /\ server.task.pc = 77
    /\ server.task.scanning
    /\ LET task == [server.task EXCEPT !.scanning = FALSE]
       IN  server' = [server EXCEPT !.task =
               IF JobId \notin DOMAIN server.uploads
                  THEN Caught(task, "[Errno 2] No such file or directory: '"
                                        \o JobDir \o "'")
                  ELSE LET found == {f \in server.uploads[JobId] : IsJpg(f)}
                       IN  IF found = {}
                              THEN Caught(task, "No images found in upload")
                              ELSE Advance([task EXCEPT !.image_files = found])]
    /\ UNCHANGED <<stitch_vars, tuning, client, motor, scan>>

\* Lines 85-97: the if/elif chain that constructs the stitcher.
\* OpenCVAutoStitcher.__init__ takes mode only: the keyword argument
\* confidence_threshold raises TypeError (Python 3.10 and later name the
\* class in the message).
Dispatch ==
    /\ server.task.state = "running"
    /\ server.task.pc = 86
    /\ LET task == server.task
       IN  CASE task.algorithm = "sensor_aided" ->
                  /\ strategy' = "sensor_aided"
                  /\ config' = [blend_width |-> task.blend_width,
                                use_fine_tuning |-> TRUE, debug_mode |-> FALSE,
                                enable_loop_closure |-> TRUE]
                  /\ server' = [server EXCEPT !.task = Advance(task)]
             [] task.algorithm = "opencv_auto" ->
                  /\ server' = [server EXCEPT !.task =
                        Caught(task, "OpenCVAutoStitcher.__init__() got an unexpected keyword argument 'confidence_threshold'")]
                  /\ UNCHANGED <<strategy, config>>
             [] task.algorithm = "manual" ->
                  /\ strategy' = "manual"
                  /\ config' = [feature_detector |-> "orb", matcher_type |-> "bf",
                                projection |-> "cylindrical"]
                  /\ server' = [server EXCEPT !.task = Advance(task)]
             [] OTHER ->
                  /\ server' = [server EXCEPT !.task =
                        Caught(task, "Unknown algorithm: " \o task.algorithm)]
                  /\ UNCHANGED <<strategy, config>>
    /\ UNCHANGED <<image_paths, pc, images, read_count, warped_count, canvas_width, canvas,
                   weight_map, offsets, closure, ret, exception, self, call,
                   mask, tuning, client, motor, scan>>

\* Line 104, the call: stitcher.stitch([str(f) for f in image_files]) with
\* the sorted glob.
StitchCall ==
    /\ server.task.state = "running"
    /\ server.task.pc = 104
    /\ pc = "idle"
    /\ image_paths' = SortedPaths(server.task.image_files)
    /\ pc' = "start"
    /\ UNCHANGED <<strategy, config, images, read_count, warped_count, canvas_width, canvas,
                   weight_map, offsets, closure, ret, exception, self, call,
                   mask, elsewhere>>

\* Lines 104-108, the return: an exception that left stitch reaches the
\* except clause (it is named by its class here), a panorama of None raises
\* ValueError("Stitching failed: " + stats.get('error', 'Unknown error')),
\* and a panorama is kept.
StitchReturn ==
    /\ server.task.state = "running"
    /\ server.task.pc = 104
    /\ pc \in {"returned", "raised"}
    /\ LET task == server.task
       IN  server' = [server EXCEPT !.task =
               IF pc = "raised" THEN Caught(task, exception)
               ELSE IF ret.none
                  THEN Caught(task, "Stitching failed: " \o
                                (IF "error" \in DOMAIN ret.stats THEN ret.stats.error
                                 ELSE "Unknown error"))
                  ELSE Advance([task EXCEPT !.panorama = TRUE])]
    /\ UNCHANGED <<stitch_vars, tuning, client, motor, scan>>

\* Lines 114-115: stitcher.save_result(panorama, str(output_file)) writes
\* the result file and returns True, or returns False (cv2.imwrite failed
\* or raised); the returned value is not looked at.
SaveResult ==
    /\ server.task.state = "running"
    /\ server.task.pc = 115
    /\ \E success \in BOOLEAN :
          server' = [server EXCEPT
              !.results = IF success THEN @ \cup {JobId} ELSE @,
              !.task = Advance(@)]
    /\ UNCHANGED <<stitch_vars, tuning, client, motor, scan>>

\* delete_job, lines 271-272: 404 for a job that is not in jobs.
DeleteCheck ==
    /\ server.delete = "none"
    /\ server.task.state # "none"
    /\ server' = [server EXCEPT !.delete =
           IF JobId \in DOMAIN server.jobs THEN "rmtree" ELSE "404"]
    /\ UNCHANGED <<stitch_vars, tuning, client, motor, scan>>

\* Lines 275-277, inside shutil.rmtree(job_dir): os.unlink of one of the
\* files the directory still holds, in the order the directory lists them.
RemoveFile ==
    /\ server.delete = "rmtree"
    /\ \E f \in server.uploads[JobId] :
          server' = [server EXCEPT !.uploads[JobId] = @ \ {f}]
    /\ UNCHANGED <<stitch_vars, tuning, client, motor, scan>>

\* Lines 275-277, the end of shutil.rmtree(job_dir): os.rmdir of the
\* directory, all of whose files are removed.
DeleteUploads ==
    /\ server.delete = "rmtree"
    /\ server.uploads[JobId] = {}
    /\ server' = [server EXCEPT !.uploads = <<>>, !.delete = "unlink"]
    /\ UNCHANGED <<stitch_vars, tuning, client, motor, scan>>

\* Lines 279-281: if result_file.exists(): result_file.unlink()
DeleteResult ==
    /\ server.delete = "unlink"
    /\ server' = [server EXCEPT !.results = @ \ {JobId}, !.delete = "del"]
    /\ UNCHANGED <<stitch_vars, tuning, client, motor, scan>>

\* Lines 284-286: del jobs[job_id]; the handler returns.
DeleteEntry ==
    /\ server.delete = "del"
    /\ server' = [server EXCEPT !.jobs = <<>>, !.delete = "returned"]
    /\ UNCHANGED <<stitch_vars, tuning, client, motor, scan>>

\* A statement of process_stitching_job itself.
TaskStep ==
    \/ JobWrite
    \/ GlobIsDir
    \/ GlobImages
    \/ Dispatch
    \/ StitchCall
    \/ StitchReturn
    \/ SaveResult

\* A step inside the stitch call of the task.
StitchStep ==
    \/ ReadImage
    \/ Load
    \/ Project
    \/ Allocate
    \/ Place
    \/ Finish
    \/ ManualStart
    \/ ManualPair
    \/ ManualFinish

\* The stitch call is under way: a StitchStep is enabled.
StitchRuns == pc \in {"start", "loaded", "warped", "placing"}

JobNext ==
    \/ UploadImages
    \/ JobWrite
    \/ GlobIsDir
    \/ GlobImages
    \/ Dispatch
    \/ StitchCall
    \/ ReadImage
    \/ Load
    \/ Project
    \/ Allocate
    \/ Place
    \/ Finish
    \/ ManualStart
    \/ ManualPair
    \/ ManualFinish
    \/ StitchReturn
    \/ SaveResult
    \/ DeleteCheck
    \/ RemoveFile
    \/ DeleteUploads
    \/ DeleteResult
    \/ DeleteEntry

JobSpec == JobInit /\ [][JobNext]_vars

\* The thread pool runs a task it has started to its end: weak fairness of
\* the task's statements and of the steps inside its stitch call, the latter
\* (WF_vars(StitchStep)) written out with its enabling condition StitchRuns.
JobFairSpec ==
    /\ JobSpec
    /\ WF_vars(TaskStep)
    /\ ([]<>(~StitchRuns) \/ []<><<StitchStep>>_vars)

\* C17: every algorithm id the job server advertises or defaults to
\* (simple_angle, opencv_auto, manual), and sensor_aided, is dispatched to a
\* constructed strategy whose stitch is called: the task of a job with
\* images that is not deleted and is past the if/elif chain of lines 85-97
\* has constructed the strategy of its algorithm, and past line 104 it has
\* called stitch.
C17_EveryAlgorithmDispatched ==
    (server.delete = "none" /\ server.task.algorithm \in JobAlgorithms
        /\ server.task.image_files # {} /\ server.task.pc > 86) =>
        /\ strategy = server.task.algorithm
        /\ server.task.pc > 104 => pc # "idle"

\* C22: once delete_job has returned successfully, the job has no entry in
\* jobs, no upload directory and no result file, and its background task
\* does not raise, wherever the task stood when the job was deleted.
C22_DeletedLeavesNothing ==
    server.delete = "returned" =>
        /\ JobId \notin DOMAIN server.jobs
        /\ JobId \notin DOMAIN server.uploads
        /\ JobId \notin server.results
        /\ server.task.state # "raised"

\* get_job_status: the entry of the job, or 404.
HasEntry(s) == JobId \in DOMAIN s.jobs
StatusOf(s) == IF HasEntry(s) THEN s.jobs[JobId].status ELSE "404"

\* download_result: 404 for an unknown job, 400 for a job that is not
\* completed, 404 for a missing result file, else the file (200).
DownloadResult(s) ==
    IF ~HasEntry(s) THEN "404 Job not found"
    ELSE IF s.jobs[JobId].status # "completed" THEN "400 Job not completed"
    ELSE IF JobId \notin s.results THEN "404 Result file not found"
    ELSE "200"

TerminalStatuses == {"completed", "failed"}

\* C23: a job's status only moves queued -> processing -> completed or
\* failed, and completed and failed are terminal; at every moment
\* completed_at is set exactly when the status is terminal and result_url
\* is set exactly when the status is completed.
C23_StatusLifecycle ==
    /\ [][(HasEntry(server) /\ HasEntry(server')
             /\ StatusOf(server') # StatusOf(server)) =>
                <<StatusOf(server), StatusOf(server')>> \in
                    {<<"queued", "processing">>, <<"processing", "completed">>,
                     <<"processing", "failed">>}]_vars
    /\ [](HasEntry(server) =>
            LET entry == server.jobs[JobId]
            IN  /\ (entry.completed_at # None) <=> (entry.status \in TerminalStatuses)
                /\ (entry.result_url # None) <=> (entry.status = "completed"))

\* C24: a job whose background task runs and which is not deleted
\* eventually has status completed or failed, whatever its algorithm and
\* files and whatever stitch and save_result do.
C24_EveryJobEnds ==
    (server.task.state = "running") ~>
        (~HasEntry(server) \/ StatusOf(server) \in TerminalStatuses)

C24_Witness ==
    /\ server.task.state = "returned"
    /\ server.delete = "none"
    /\ StatusOf(server) = "failed"
    /\ server.jobs[JobId].message = "Stitching failed: Need at least 2 images"

\* C25: a job that is not being deleted and has status completed has its
\* result file, so download_result returns the panorama; a save that failed
\* never leaves the job marked completed.
C25_CompletedHasResult ==
    (server.delete = "none" /\ StatusOf(server) = "completed") =>
        /\ JobId \in server.results
        /\ DownloadResult(server) = "200"

(***************************************************************************)
(* UploadClient.upload_and_stitch: the health check, the upload, the       *)
(* polling loop of wait_for_completion and the download.  What the server  *)
(* answers is an input of each step.  log lists the steps that have        *)
(* finished with their outcome, observed the job statuses the polls got.   *)
(***************************************************************************)
\* The most polls before self.timeout has elapsed.
MaxPolls == 3

\* What get_job_status gives: None for a failed request, else the entry's
\* status.
PolledStatuses == {None, "queued", "processing", "completed", "failed"}

\* One turn of the loop of wait_for_completion, lines 152-188: what the
\* turn does for the elapsed-time test and the status it polled.
FailedCountsAsDone(timed_out, job_status) ==
    IF timed_out THEN "return None"
    ELSE IF job_status = None THEN "continue"
    ELSE IF job_status \in {"completed", "failed"} THEN "return status"
    ELSE "continue"

PollOutcome(timed_out, job_status) ==
    IF timed_out THEN "return None"
    ELSE IF job_status = None THEN "continue"
    ELSE IF job_status = "completed" THEN "return status"
    ELSE IF job_status = "failed" THEN "return None"
    ELSE "continue"

ClientInit ==
    /\ StitcherIdle
    /\ client = [NoClient EXCEPT !.pc = "check_server_health"]
    /\ tuning = NoTuning
    /\ server = NoServer
    /\ motor = NewMotor
    /\ scan = NoScan

Logged(step, ok) == Append(client.log, [step |-> step, ok |-> ok])

\* Lines 252-254: if not self.check_server_health(): return False
CheckServerHealth ==
    /\ client.pc = "check_server_health"
    /\ \E healthy \in BOOLEAN :
          client' = [client EXCEPT
              !.log = Logged("check_server_health", healthy),
              !.pc = IF healthy THEN "upload_images" ELSE "returned",
              !.returned = IF healthy THEN @ ELSE "False"]
    /\ UNCHANGED <<stitch_vars, tuning, server, motor, scan>>

\* Lines 257-265: job_id = self.upload_images(...); if not job_id: return
\* False.  upload_images gives the job id, or None when no file exists or
\* the request fails.
ClientUpload ==
    /\ client.pc = "upload_images"
    /\ \E job_id \in {JobId, None} :
          client' = [client EXCEPT
              !.log = Logged("upload_images", job_id # None),
              !.pc = IF job_id # None THEN "wait_for_completion" ELSE "returned",
              !.returned = IF job_id # None THEN @ ELSE "False"]
    /\ UNCHANGED <<stitch_vars, tuning, server, motor, scan>>

\* One turn of the loop of wait_for_completion, and lines 268-271 when the
\* loop returns: if not result: return False.
Poll ==
    /\ client.pc = "wait_for_completion"
    /\ \E timed_out \in BOOLEAN, job_status \in PolledStatuses :
          /\ Len(client.observed) >= MaxPolls => timed_out
          /\ LET outcome == PollOutcome(timed_out, job_status)
                 seen == IF timed_out THEN client.observed
                         ELSE Append(client.observed, job_status)
             IN  client' =
                   CASE outcome = "continue" ->
                          [client EXCEPT !.observed = seen]
                     [] outcome = "return status" ->
                          [client EXCEPT !.observed = seen,
                              !.log = Logged("wait_for_completion", TRUE),
                              !.pc = "download_result"]
                     [] outcome = "return None" ->
                          [client EXCEPT !.observed = seen,
                              !.timed_out = timed_out,
                              !.log = Logged("wait_for_completion", FALSE),
                              !.pc = "returned", !.returned = "False"]
    /\ UNCHANGED <<stitch_vars, tuning, server, motor, scan>>

\* Line 274: return self.download_result(job_id, output_path)
Download ==
    /\ client.pc = "download_result"
    /\ \E saved \in BOOLEAN :
          client' = [client EXCEPT
              !.log = Logged("download_result", saved),
              !.pc = "returned",
              !.returned = IF saved THEN "True" ELSE "False"]
    /\ UNCHANGED <<stitch_vars, tuning, server, motor, scan>>

ClientNext ==
    \/ CheckServerHealth
    \/ ClientUpload
    \/ Poll
    \/ Download

ClientSpec == ClientInit /\ [][ClientNext]_vars

\* The four steps in the order of the workflow.
Workflow == <<"check_server_health", "upload_images", "wait_for_completion",
              "download_result">>

\* C26: upload_and_stitch performs the health check, the upload, the wait
\* and the download strictly in this order, each only if the one before
\* succeeded; the download happens only after a poll observed "completed",
\* never after "failed" or a timeout; True is returned only if all four
\* steps succeeded.
C26_WorkflowInOrder ==
    /\ Len(client.log) <= Len(Workflow)
    /\ \A i \in DOMAIN client.log :
          /\ client.log[i].step = Workflow[i]
          /\ i > 1 => client.log[i - 1].ok
    /\ client.pc = "wait_for_completion" =>
          /\ Len(client.log) = 2
          /\ client.log[2].ok
    /\ (client.pc = "download_result" \/ Len(client.log) = 4) =>
          /\ client.observed # <<>>
          /\ client.observed[Len(client.observed)] = "completed"
          /\ \A i \in DOMAIN client.observed : client.observed[i] # "failed"
          /\ ~client.timed_out
    /\ client.returned = "True" =>
          /\ Len(client.log) = 4
          /\ \A i \in DOMAIN client.log : client.log[i].ok

C26_Witness ==
    /\ client.returned = "True"
    /\ Len(client.observed) = 3
    /\ client.observed[1] = None

(***************************************************************************)
(* StepperMotor: step, rotate_angle, rotate_to_angle and reset_position.   *)
(* Angles are                                                              *)
(* integers in units of 1/1024 degree, in which one motor step of          *)
(* 360 / 4096 degrees is 90 units and every half degree is exact, as all   *)
(* these values are in the float arithmetic of the code.                   *)
(***************************************************************************)
UnitsPerDegree == 1024
STEPS_PER_REVOLUTION == 4096
FullTurn == 360 * UnitsPerDegree

\* angle_per_step = 360.0 / self.STEPS_PER_REVOLUTION
AnglePerStep == FullTurn \div STEPS_PER_REVOLUTION

\* len(self.STEP_SEQUENCE)
SequenceLength == 8

\* An angle given in half degrees.
HalfDegrees(n) == n * (UnitsPerDegree \div 2)

\* StepperMotor.step: abs(steps) advances of the coil sequence in the
\* direction of clockwise; current_angle moves by steps * direction.
MotorStep(m, steps, clockwise) ==
    LET direction == IF clockwise THEN 1 ELSE -1
        advances == direction * Abs(steps)
        total_steps_moved == steps * direction
    IN  [m EXCEPT
            !.current_step = (@ + advances) % SequenceLength,
            !.shaft = @ + advances,
            !.current_angle = (@ + (total_steps_moved * AnglePerStep)) % FullTurn]

\* StepperMotor.rotate_angle: steps = int((angle / 360.0) * 4096).
StepsFor(angle) == TruncDiv(angle, AnglePerStep)

RotateAngle(m, angle, clockwise) == MotorStep(m, StepsFor(angle), clockwise)

\* StepperMotor.rotate_to_angle: the shortest way to target_angle % 360.0.
RotateToAngle(m, target_angle) ==
    LET target == target_angle % FullTurn
        diff == target - m.current_angle
        angle_diff == IF diff > FullTurn \div 2 THEN diff - FullTurn
                      ELSE IF diff < 0 - (FullTurn \div 2) THEN diff + FullTurn
                      ELSE diff
    IN  IF angle_diff # 0 THEN RotateAngle(m, Abs(angle_diff), angle_diff > 0)
        ELSE m

\* StepperMotor.reset_position: rotate_to_angle(0), then current_angle = 0.0.
ResetPosition(m) == [RotateToAngle(m, 0) EXCEPT !.current_angle = 0]

\* The calls made on one motor, and their arguments.
MaxMoves == 3
StepArguments == {-3, 0, 1, 5}
AngleArguments == {HalfDegrees(n) : n \in {-30, 1, 15, 90}}
TargetArguments == {HalfDegrees(n) : n \in {-180, 0, 45, 700, 725}}

MotorInit ==
    /\ StitcherIdle
    /\ motor = NewMotor
    /\ tuning = NoTuning
    /\ server = NoServer
    /\ client = NoClient
    /\ scan = NoScan

CallStep ==
    /\ motor.moves < MaxMoves
    /\ \E steps \in StepArguments, clockwise \in BOOLEAN :
          motor' = [MotorStep(motor, steps, clockwise) EXCEPT !.moves = @ + 1]
    /\ UNCHANGED <<stitch_vars, tuning, server, client, scan>>

CallRotateAngle ==
    /\ motor.moves < MaxMoves
    /\ \E angle \in AngleArguments, clockwise \in BOOLEAN :
          motor' = [RotateAngle(motor, angle, clockwise) EXCEPT !.moves = @ + 1]
    /\ UNCHANGED <<stitch_vars, tuning, server, client, scan>>

CallRotateToAngle ==
    /\ motor.moves < MaxMoves
    /\ \E target_angle \in TargetArguments :
          motor' = [RotateToAngle(motor, target_angle) EXCEPT !.moves = @ + 1]
    /\ UNCHANGED <<stitch_vars, tuning, server, client, scan>>

CallResetPosition ==
    /\ motor.moves < MaxMoves
    /\ motor' = [ResetPosition(motor) EXCEPT !.moves = @ + 1, !.reset = TRUE]
    /\ UNCHANGED <<stitch_vars, tuning, server, client, scan>>

MotorNext ==
    \/ CallStep
    \/ CallRotateAngle
    \/ CallRotateToAngle
    \/ CallResetPosition

MotorSpec == MotorInit /\ [][MotorNext]_vars

\* C30: after any sequence of step, rotate_angle and rotate_to_angle calls
\* with any signed arguments and no reset, the tracked current_angle is the
\* net number of coil-sequence advances times 360 / 4096 degrees, modulo
\* 360.
C30_AngleTracksShaft ==
    ~motor.reset => motor.current_angle = (motor.shaft * AnglePerStep) % FullTurn

(***************************************************************************)
(* Pan360Scanner.scan: the capture angles, the loop that turns the motor   *)
(* and captures a frame at each angle, and the return to the start.        *)
(***************************************************************************)
\* The longest scan followed here, in captures.
MaxCaptures == 48

\* The decimal digits of a natural number, as character codes.
RECURSIVE Decimal(_)
Decimal(n) == IF n < 10 THEN <<48 + n>> ELSE Decimal(n \div 10) \o <<48 + (n % 10)>>

\* f"{n:03d}": zero-padded to three digits, longer numbers as they are.
Format03d(n) ==
    LET d == Decimal(n)
    IN  [i \in 1..(3 - Len(d)) |-> 48] \o d

\* CameraController.capture: filename = f"angle_{int(angle):03d}.jpg"
CaptureName(angle) == AngleName(Format03d(TruncDiv(angle, UnitsPerDegree)))

\* The number of turns of "while current_angle < total_angle".
AngleCount(total_angle, increment) ==
    (total_angle + increment - 1) \div increment

\* Pan360Scanner.calculate_scan_angles: 0, increment, 2 * increment, ...
\* below total_angle.
CalculateScanAngles(scan_config) ==
    [i \in 1..AngleCount(scan_config.total_angle, scan_config.angle_increment) |->
        (i - 1) * scan_config.angle_increment]

\* The scans: total angles of 2, 90 and 360 degrees, increments of 0.5, 7.5,
\* 15 and 45 degrees, both directions, with and without the return.
ScanConfigs ==
    {c \in [total_angle : {HalfDegrees(n) : n \in {4, 180, 720}},
            angle_increment : {HalfDegrees(n) : n \in {1, 15, 30, 90}},
            clockwise : BOOLEAN, return_home : BOOLEAN] :
        AngleCount(c.total_angle, c.angle_increment) <= MaxCaptures}

ScanInit ==
    /\ StitcherIdle
    /\ scan \in {[NoScan EXCEPT !.pc = "start", !.config = c] : c \in ScanConfigs}
    /\ motor = NewMotor
    /\ tuning = NoTuning
    /\ server = NoServer
    /\ client = NoClient

\* Lines 123-141: angles = self.calculate_scan_angles(), captured_images = [].
StartScan ==
    /\ scan.pc = "start"
    /\ scan' = [scan EXCEPT !.angles = CalculateScanAngles(scan.config),
                            !.pc = "capturing"]
    /\ UNCHANGED <<stitch_vars, tuning, server, client, motor>>

\* One turn of the loop of lines 144-174: the first frame is taken where
\* the motor stands (its angle is 0), every later one after
\* rotate_angle(angle_increment, clockwise); then camera.capture(angle).
CaptureFrame ==
    /\ scan.pc = "capturing"
    /\ Len(scan.captured) < Len(scan.angles)
    /\ LET i == Len(scan.captured)
           angle == scan.angles[i + 1]
           turned == IF i = 0
                        THEN IF angle > 0
                                THEN RotateAngle(motor, angle, scan.config.clockwise)
                                ELSE motor
                        ELSE RotateAngle(motor, scan.config.angle_increment,
                                         scan.config.clockwise)
       IN  /\ motor' = turned
           /\ scan' = [scan EXCEPT !.captured =
                  Append(@, [angle |-> angle, file |-> CaptureName(angle),
                             current_angle |-> turned.current_angle])]
    /\ UNCHANGED <<stitch_vars, tuning, server, client>>

\* Lines 186-206: with return_home, rotate_angle(total_angle, not clockwise)
\* and current_angle = 0.0; the list of captured files is returned.
FinishScan ==
    /\ scan.pc = "capturing"
    /\ Len(scan.captured) = Len(scan.angles)
    /\ motor' = IF scan.config.return_home
                   THEN [RotateAngle(motor, scan.config.total_angle,
                                     ~scan.config.clockwise)
                            EXCEPT !.current_angle = 0]
                   ELSE motor
    /\ scan' = [scan EXCEPT !.pc = "done"]
    /\ UNCHANGED <<stitch_vars, tuning, server, client>>

ScanNext ==
    \/ StartScan
    \/ CaptureFrame
    \/ FinishScan

ScanSpec == ScanInit /\ [][ScanNext]_vars

\* C27: after a scan with return_home the motor's net physical
\* displacement is zero: as many steps back as forward, for every total
\* angle and increment.
C27_ReturnsHome ==
    (scan.pc = "done" /\ scan.config.return_home) => motor.shaft = 0

\* Two angles are within one motor step of each other on the circle.
WithinOneStep(a, b) ==
    LET d == (a - b) % FullTurn
    IN  d <= AnglePerStep \/ d >= FullTurn - AnglePerStep

\* C28: at every capture i (from 0) the motor's tracked current_angle is
\* i times angle_increment in the direction of travel, within one motor
\* step of 360 / 4096 degrees: the truncation to whole steps does not
\* accumulate.
C28_TrackedAngleFollows ==
    \A k \in DOMAIN scan.captured :
        LET travelled == (k - 1) * scan.config.angle_increment
            expected == IF scan.config.clockwise THEN travelled ELSE 0 - travelled
        IN  WithinOneStep(scan.captured[k].current_angle, expected)

\* C29: the bearing the stitching strategies parse back from the name of a
\* captured file is the capture angle, and two different capture angles
\* never get the same file name.
C29_NameRoundTrip ==
    /\ \A k \in DOMAIN scan.captured :
          /\ SensorExtractAngle(scan.captured[k].file) * UnitsPerDegree
                = scan.captured[k].angle
          /\ SimpleExtractAngle(scan.captured[k].file) * UnitsPerDegree
                = scan.captured[k].angle
    /\ \A j, k \in DOMAIN scan.captured :
          scan.captured[j].angle # scan.captured[k].angle =>
              scan.captured[j].file # scan.captured[k].file

====
